---------------------------- MODULE Spec2Model ----------------------------
(***************************************************************************)
(* A model of the DMI weather-data preprocessing pipeline:                 *)
(*   Code/DMI/2ensureTimestampConsistency.py     (timestamp normalizer)    *)
(*   Code/Data/DMI_Data/3dmi_zone_split.py       (zone classifier)         *)
(*   Code/Data/DMI_Data/4aggregatePerHourPerStation.py (station-hour mean) *)
(*   Code/DMI/5aggregatePerHourPerRegion.py      (regional mean)           *)
(*   Code/Data/DMI_Data/6cleanMostlyEmptyOrBoringColumns.py (column pruner)*)
(* and of the stage orchestrator Code/Prices/0runPreprocessing.py.         *)
(*                                                                         *)
(* Every stage is a single-threaded pass over a file.  Each stage has its  *)
(* own variables and its own specification (SpecGetZone, SpecSplit, ...);  *)
(* the variables of the other stages rest at their idle values.            *)
(*                                                                         *)
(* JSON values are records with a kind field k, so that Python's dynamic   *)
(* typing (truthiness, len(), float(), hashing, the exceptions they raise) *)
(* can be followed case by case.  A call's outcome is a record             *)
(* [tag, val]: tag "return" with the value, or tag "raise" with the name   *)
(* of the exception that leaves the function.                              *)
(***************************************************************************)
EXTENDS Integers, Sequences, FiniteSets, TLC

VARIABLES
    \* ---- harness for the pure functions get_zone / normalize_to_utc
    callFn,        \* which function is exercised ("none" when idle)
    callArgs,      \* its arguments
    callRes,       \* the outcomes of the successive calls
    local_tz,      \* the machine's local UTC offset (hours), read by astimezone()
    \* ---- 3dmi_zone_split.py : split_file_by_zone
    z_infile,      \* the lines of the input file
    z_pos,         \* index of the next line enumerate(infile) yields
    f_dk1,         \* lines written to <base>_DK1.txt
    f_dk2,         \* lines written to <base>_DK2.txt
    count_dk1,
    count_dk2,
    count_unknown,
    z_invalid,     \* number of "Skipping invalid JSON" warnings printed
    z_pc,          \* "idle" | "loop" | "done" | "error"
    \* ---- 2ensureTimestampConsistency.py : process_file
    n_infile,      \* the lines the open input handle yields (the original content)
    n_pos,         \* index of the next line "for line in infile" yields
    n_file,        \* the content at the canonical path (filepath)
    n_tmp,         \* the content written to filepath + '.tmp'
    modified_count,
    line_count,
    n_pc,          \* "idle" | "loop" | "closed" | "done" | "raised" | "killed"
    \* ---- 4aggregatePerHourPerStation.py : process_station_averages
    KEEP_PARAMS,   \* the configured parameter allow-list (a set; empty = keep all)
    s_infile,      \* the lines of the zone file
    s_pos,         \* index of the next line "for line in f" yields
    aggregated_data,  \* (station_id, hour_key, param_id) -> <<sum, count>>
    s_todo,        \* sorted_keys not yet written
    s_out,         \* the rows written to <base>_hourly_avg.csv (after the header)
    s_pc,          \* "idle" | "loop" | "write" | "done" | "raised"
    \* ---- 5aggregatePerHourPerRegion.py : calculate_regional_averages
    r_infile,      \* the data rows of the station-hour CSV file
    r_pos,         \* index of the next row the DictReader yields
    timestamps,    \* time -> (parameter -> <<sum, count of stations>>)
    all_parameters,
    r_todo,        \* sorted_times not yet written
    r_out,         \* the rows written to the regional CSV file (after the header)
    r_pc,          \* "idle" | "loop" | "write" | "done"
    \* ---- 6cleanMostlyEmptyOrBoringColumns.py : the script and clean_dataset
    p_fs,          \* the directory: file name -> content
    p_files,       \* the names glob returned that the for loop has not reached
    p_cur,         \* filename, the argument of the running clean_dataset call
    df,            \* the table read_csv returned: a sequence of columns
    p_col,         \* index of the next column "for col in df.columns" yields
    cols_to_drop,
    reasons,       \* column name -> why it is dropped
    p_counted,     \* the columns whose value_counts() was computed (line 71)
    p_report,      \* the "- col: reason" lines printed (lines 86-87)
    p_pc,          \* "idle" | "main" | "loop" | "done"
    \* ---- Prices/0runPreprocessing.py : main and run_script
    SCRIPTS_TO_RUN,  \* the configured list of scripts
    o_next,        \* index of the next script "for script in SCRIPTS_TO_RUN" yields
    o_child,       \* the script whose process is running ("" when none)
    o_started,     \* the scripts whose process was started, in order
    o_results,     \* how each run_script call ended
    o_log,         \* the messages of main() printed so far
    o_exit,        \* the orchestrator's exit code (-1 while it runs)
    o_pc           \* "idle" | "main" | "wait" | "exited"

harnessVars == <<callFn, callArgs, callRes, local_tz>>
zoneVars == <<z_infile, z_pos, f_dk1, f_dk2, count_dk1, count_dk2, count_unknown,
              z_invalid, z_pc>>
normVars == <<n_infile, n_pos, n_file, n_tmp, modified_count, line_count, n_pc>>
stationVars == <<KEEP_PARAMS, s_infile, s_pos, aggregated_data, s_todo, s_out, s_pc>>
regionVars == <<r_infile, r_pos, timestamps, all_parameters, r_todo, r_out, r_pc>>
pruneVars == <<p_fs, p_files, p_cur, df, p_col, cols_to_drop, reasons, p_counted,
               p_report, p_pc>>
orchVars == <<SCRIPTS_TO_RUN, o_next, o_child, o_started, o_results, o_log, o_exit,
              o_pc>>
vars == <<harnessVars, zoneVars, normVars, stationVars, regionVars, pruneVars, orchVars>>

\* the variables of the stages other than the one that runs
exceptHarness == <<zoneVars, normVars, stationVars, regionVars, pruneVars, orchVars>>
exceptZone == <<harnessVars, normVars, stationVars, regionVars, pruneVars, orchVars>>
exceptNorm == <<harnessVars, zoneVars, stationVars, regionVars, pruneVars, orchVars>>
exceptStation == <<harnessVars, zoneVars, normVars, regionVars, pruneVars, orchVars>>
exceptRegion == <<harnessVars, zoneVars, normVars, stationVars, pruneVars, orchVars>>
exceptPrune == <<harnessVars, zoneVars, normVars, stationVars, regionVars, orchVars>>
exceptOrch == <<harnessVars, zoneVars, normVars, stationVars, regionVars, pruneVars>>

Return(v) == [tag |-> "return", val |-> v]
Raise(e) == [tag |-> "raise", val |-> e]

SeqsUpTo(S, n) == UNION {[1..k -> S] : k \in 0..n}

(***************************************************************************)
(* 3dmi_zone_split.py : configuration                                      *)
(***************************************************************************)
DK1_STATION_IDS ==
    {"06030", "06041", "06049", "06051", "06052", "06056", "06058", "06060",
     "06065", "06068", "06070", "06072", "06073", "06074", "06079", "06080",
     "06081", "06082", "06088", "06093", "06096", "06102", "06104", "06110",
     "06116", "06118", "06119", "06120", "06123", "06124", "06126", "06132"}

DK2_STATION_IDS ==
    {"06135", "06136", "06138", "06141", "06147", "06149", "06151", "06154",
     "06156", "06159", "06160", "06165", "06168", "06169", "06170", "06174",
     "06180", "06181", "06183", "06184", "06186", "06187", "06188", "06190",
     "06193", "06197"}

\* degrees East; the model's longitudes are whole degrees
LONGITUDE_CUTOFF == 11

(***************************************************************************)
(* JSON values as get_zone sees them.                                      *)
(*   station id : [k, s]      k in str | null | num | list                 *)
(*   element    : [k, n]      k in num | nan | bool | str_num | str_bad |  *)
(*                                 null | list                             *)
(*   coordinates: [k, n, items]                                            *)
(*                k in null | list | str | num | bool | dict               *)
(* A str coordinates value is its sequence of one-character strings: a     *)
(* digit is a str_num element, any other character a str_bad element.      *)
(***************************************************************************)
SidStr(s) == [k |-> "str", s |-> s]
SidNull == [k |-> "null", s |-> ""]
SidNum == [k |-> "num", s |-> ""]
SidList == [k |-> "list", s |-> ""]

Elem(k, n) == [k |-> k, n |-> n]

CoordNull == [k |-> "null", n |-> 0, items |-> <<>>]
CoordList(items) == [k |-> "list", n |-> 0, items |-> items]
CoordStr(items) == [k |-> "str", n |-> 0, items |-> items]
CoordNum(n) == [k |-> "num", n |-> n, items |-> <<>>]
CoordBool(b) == [k |-> "bool", n |-> b, items |-> <<>>]
CoordDict(size) == [k |-> "dict", n |-> size, items |-> <<>>]

\* hash(x): lists (and dicts) are unhashable, so "x in <set>" raises TypeError
Hashable(station_id) == station_id.k # "list"

InIdSet(station_id, ids) == station_id.k = "str" /\ station_id.s \in ids

\* bool(coordinates)
Truthy(c) ==
    CASE c.k = "null" -> FALSE
      [] c.k \in {"list", "str"} -> Len(c.items) > 0
      [] c.k \in {"num", "bool", "dict"} -> c.n # 0

\* len() is defined for sized containers only
HasLen(c) == c.k \in {"list", "str", "dict"}

PyLen(c) == IF c.k = "dict" THEN c.n ELSE Len(c.items)

\* float(x): [tag, n] with tag in ok | nan | ValueError | TypeError
PyFloat(e) ==
    CASE e.k \in {"num", "bool", "str_num"} -> [tag |-> "ok", n |-> e.n]
      [] e.k = "nan" -> [tag |-> "nan", n |-> 0]
      [] e.k = "str_bad" -> [tag |-> "ValueError", n |-> 0]
      [] e.k \in {"null", "list"} -> [tag |-> "TypeError", n |-> 0]

\* the fallback with the comparison written "lon <= LONGITUDE_CUTOFF"
LonFallback_Le(coordinates) ==
    IF ~HasLen(coordinates) THEN Raise("TypeError")
    ELSE IF ~(PyLen(coordinates) >= 1) THEN Return("UNKNOWN")
    ELSE IF coordinates.k = "dict" THEN Raise("KeyError")
    ELSE LET lon == PyFloat(coordinates.items[1])
         IN CASE lon.tag = "ok" ->
                    IF lon.n <= LONGITUDE_CUTOFF THEN Return("DK1") ELSE Return("DK2")
              [] lon.tag = "nan" -> Return("DK2")
              [] lon.tag \in {"ValueError", "TypeError"} -> Return("UNKNOWN")

\* lines 46-54: the longitude fallback; coordinates is truthy here
LonFallback(coordinates) ==
    IF ~HasLen(coordinates) THEN Raise("TypeError")          \* len() outside the try
    ELSE IF ~(PyLen(coordinates) >= 1) THEN Return("UNKNOWN")
    ELSE IF coordinates.k = "dict" THEN Raise("KeyError")    \* coordinates[0]
    ELSE LET lon == PyFloat(coordinates.items[1])
         IN CASE lon.tag = "ok" ->
                    IF lon.n < LONGITUDE_CUTOFF THEN Return("DK1") ELSE Return("DK2")
              [] lon.tag = "nan" -> Return("DK2")            \* nan < 11.0 is False
              [] lon.tag \in {"ValueError", "TypeError"} -> Return("UNKNOWN")

\* get_zone with the longitude looked at before the station-ID tables
get_zone_LonFirst(station_id, coordinates) ==
    IF ~Hashable(station_id) THEN Raise("TypeError")
    ELSE IF Truthy(coordinates) /\ HasLen(coordinates) /\ coordinates.k # "dict"
            /\ PyFloat(coordinates.items[1]).tag = "ok"
         THEN LonFallback(coordinates)
    ELSE IF InIdSet(station_id, DK1_STATION_IDS) THEN Return("DK1")
    ELSE IF InIdSet(station_id, DK2_STATION_IDS) THEN Return("DK2")
    ELSE Return("UNKNOWN")

get_zone(station_id, coordinates) ==
    IF ~Hashable(station_id) THEN Raise("TypeError")
    ELSE IF InIdSet(station_id, DK1_STATION_IDS) THEN Return("DK1")
    ELSE IF InIdSet(station_id, DK2_STATION_IDS) THEN Return("DK2")
    ELSE IF Truthy(coordinates) THEN LonFallback(coordinates)
    ELSE Return("UNKNOWN")

(***************************************************************************)
(* Inputs of the get_zone harness                                          *)
(***************************************************************************)
UnlistedIds == {"99999", "06031"}

SampleSids == {SidStr(s) : s \in DK1_STATION_IDS \cup DK2_STATION_IDS \cup UnlistedIds}
                  \cup {SidNull, SidNum, SidList}

\* longitudes around the cutoff
MaxLonDelta == 1
SampleLons == (LONGITUDE_CUTOFF - MaxLonDelta)..(LONGITUDE_CUTOFF + MaxLonDelta)

SampleElems == {Elem("num", n) : n \in SampleLons}
                  \cup {Elem("str_num", n) : n \in SampleLons}
                  \cup {Elem("nan", 0), Elem("bool", 1), Elem("str_bad", 0),
                        Elem("null", 0), Elem("list", 0)}

SampleCoords == {CoordNull, CoordList(<<>>), CoordStr(<<>>), CoordNum(0), CoordNum(9),
                 CoordBool(0), CoordBool(1), CoordDict(0), CoordDict(2),
                 CoordStr(<<Elem("str_num", 9)>>), CoordStr(<<Elem("str_bad", 0)>>)}
                   \cup {CoordList(<<e>>) : e \in SampleElems}
                   \cup {CoordList(<<e, Elem("num", 55)>>) : e \in SampleElems}

\* the number of times the harness calls the function on the same argument
MaxCalls == 2

HarnessIdle == callFn = "none" /\ callArgs = <<>> /\ callRes = <<>> /\ local_tz = 0

ZoneIdle ==
    /\ z_infile = <<>> /\ z_pos = 0 /\ f_dk1 = <<>> /\ f_dk2 = <<>>
    /\ count_dk1 = 0 /\ count_dk2 = 0 /\ count_unknown = 0
    /\ z_invalid = 0 /\ z_pc = "idle"

NormIdle ==
    /\ n_infile = <<>> /\ n_pos = 0 /\ n_file = <<>> /\ n_tmp = <<>>
    /\ modified_count = 0 /\ line_count = 0 /\ n_pc = "idle"

EmptyMap == [x \in {} |-> <<0, 0>>]

StationIdle ==
    /\ KEEP_PARAMS = {}
    /\ s_infile = <<>> /\ s_pos = 0 /\ aggregated_data = EmptyMap
    /\ s_todo = <<>> /\ s_out = <<>> /\ s_pc = "idle"

NoTimes == [x \in {} |-> EmptyMap]

RegionIdle ==
    /\ r_infile = <<>> /\ r_pos = 0 /\ timestamps = NoTimes /\ all_parameters = {}
    /\ r_todo = <<>> /\ r_out = <<>> /\ r_pc = "idle"

\* a file name <stem>_regional_timeseries<tag>.csv
FName(stem, tag) == [stem |-> stem, tag |-> tag]

NoFile == FName("", "")

NoReasons == [x \in {} |-> ""]

PruneIdle ==
    /\ p_fs = [f \in {} |-> <<>>] /\ p_files = {} /\ p_cur = NoFile
    /\ df = <<>> /\ p_col = 0 /\ cols_to_drop = <<>> /\ reasons = NoReasons
    /\ p_counted = {} /\ p_report = <<>> /\ p_pc = "idle"

OrchIdle ==
    /\ SCRIPTS_TO_RUN = <<>> /\ o_next = 0 /\ o_child = "" /\ o_started = <<>>
    /\ o_results = <<>> /\ o_log = <<>> /\ o_exit = 0 - 1 /\ o_pc = "idle"

IdleExceptHarness == ZoneIdle /\ NormIdle
                     /\ StationIdle /\ RegionIdle /\ PruneIdle /\ OrchIdle
IdleExceptZone == HarnessIdle /\ NormIdle
                     /\ StationIdle /\ RegionIdle /\ PruneIdle /\ OrchIdle
IdleExceptNorm == ZoneIdle /\ StationIdle
                     /\ RegionIdle /\ PruneIdle /\ OrchIdle
IdleExceptStation == HarnessIdle /\ ZoneIdle
                     /\ NormIdle /\ RegionIdle /\ PruneIdle /\ OrchIdle
IdleExceptRegion == HarnessIdle /\ ZoneIdle
                     /\ NormIdle /\ StationIdle /\ PruneIdle /\ OrchIdle
IdleExceptPrune == HarnessIdle /\ ZoneIdle
                     /\ NormIdle /\ StationIdle /\ RegionIdle /\ OrchIdle
IdleExceptOrch == HarnessIdle /\ ZoneIdle /\ NormIdle /\ StationIdle /\ RegionIdle
                     /\ PruneIdle

InitGetZone ==
    /\ callFn = "get_zone"
    /\ callArgs \in {<<s, c>> : s \in SampleSids, c \in SampleCoords}
    /\ callRes = <<>>
    /\ local_tz = 0
    /\ IdleExceptHarness

CallGetZone ==
    /\ callFn = "get_zone"
    /\ Len(callRes) < MaxCalls
    /\ callRes' = Append(callRes, get_zone(callArgs[1], callArgs[2]))
    /\ UNCHANGED <<callFn, callArgs, local_tz, exceptHarness>>

NextGetZone == CallGetZone

SpecGetZone == InitGetZone /\ [][NextGetZone]_vars

(***************************************************************************)
(* 3dmi_zone_split.py : split_file_by_zone                                 *)
(*                                                                         *)
(* An input line is [k, pad, shape, station_id, coordinates]:              *)
(*   k     : blank (empty after strip) | invalid (json.loads raises        *)
(*           JSONDecodeError) | json                                       *)
(*   pad   : the raw line carries leading/trailing whitespace besides its  *)
(*           newline; line.strip() removes it                              *)
(*   shape : ok | data_not_obj | props_not_obj | geometry_not_obj, the     *)
(*           place where .get() meets a value that is not a dict           *)
(*   station_id  : props.get("stationId")     (SidNull when absent)        *)
(*   coordinates : geometry.get("coordinates") (CoordNull when absent)     *)
(***************************************************************************)
ZLine(k, pad, shape, sid, coords) ==
    [k |-> k, pad |-> pad, shape |-> shape, station_id |-> sid, coordinates |-> coords]

ZJson(pad, sid, coords) == ZLine("json", pad, "ok", sid, coords)

\* line.strip()
Strip(line) == [line EXCEPT !.pad = FALSE]

SampleZLines ==
    { ZJson(FALSE, SidStr("06030"), CoordNull),
      ZJson(TRUE, SidStr("06135"), CoordList(<<Elem("num", LONGITUDE_CUTOFF - 1)>>)),
      ZJson(FALSE, SidStr("99999"), CoordList(<<Elem("num", LONGITUDE_CUTOFF - 1)>>)),
      ZJson(FALSE, SidStr("99999"), CoordList(<<Elem("num", LONGITUDE_CUTOFF)>>)),
      ZJson(FALSE, SidStr("99999"), CoordNull),
      ZJson(FALSE, SidNull, CoordList(<<Elem("str_bad", 0)>>)),
      ZJson(FALSE, SidStr("99999"), CoordDict(2)),
      ZLine("json", FALSE, "props_not_obj", SidNull, CoordNull),
      ZLine("blank", TRUE, "ok", SidNull, CoordNull),
      ZLine("invalid", FALSE, "ok", SidNull, CoordNull) }

\* the longest input file of the zone splitter
MaxZLines == 3

\* lines 83-95 for one stripped, non-blank line: what the body of the inner
\* try arrives at.  JSONDecodeError is the only exception the inner try
\* catches; AttributeError (.get on a non-dict) and whatever get_zone raises
\* leave the loop.
Classify(line) ==
    IF line.k = "invalid" THEN Raise("JSONDecodeError")
    ELSE IF line.shape # "ok" THEN Raise("AttributeError")
    ELSE get_zone(line.station_id, line.coordinates)

InitSplit ==
    /\ IdleExceptZone
    /\ z_infile \in SeqsUpTo(SampleZLines, MaxZLines)
    /\ z_pos = 1
    /\ f_dk1 = <<>> /\ f_dk2 = <<>>        \* just opened with mode 'w'
    /\ count_dk1 = 0 /\ count_dk2 = 0 /\ count_unknown = 0
    /\ z_invalid = 0
    /\ z_pc = "loop"

\* the zone a line is written to when the call gives z
WriteZoneSwapped(line, z) ==
    /\ z_pos' = z_pos + 1
    /\ z_invalid' = z_invalid
    /\ z_pc' = z_pc
    /\ IF z = "DK1"
         THEN /\ f_dk1' = Append(f_dk1, line)
              /\ count_dk1' = count_dk1 + 1
              /\ UNCHANGED <<f_dk2, count_dk2, count_unknown>>
         ELSE /\ f_dk2' = Append(f_dk2, line)
              /\ count_dk2' = count_dk2 + 1
              /\ UNCHANGED <<f_dk1, count_dk1, count_unknown>>

\* lines 97-106 without the count of the UNKNOWN records
WriteZone_UnknownUncounted(line, z) ==
    /\ z_pos' = z_pos + 1
    /\ z_invalid' = z_invalid
    /\ z_pc' = z_pc
    /\ IF z = "DK1"
         THEN /\ f_dk1' = Append(f_dk1, line)
              /\ count_dk1' = count_dk1 + 1
              /\ UNCHANGED <<f_dk2, count_dk2, count_unknown>>
         ELSE IF z = "DK2"
         THEN /\ f_dk2' = Append(f_dk2, line)
              /\ count_dk2' = count_dk2 + 1
              /\ UNCHANGED <<f_dk1, count_dk1, count_unknown>>
         ELSE UNCHANGED <<f_dk1, f_dk2, count_dk1, count_dk2, count_unknown>>

\* lines 97-106
WriteZone(line, z) ==
    /\ z_pos' = z_pos + 1
    /\ z_invalid' = z_invalid
    /\ z_pc' = z_pc
    /\ IF z = "DK1"
         THEN /\ f_dk1' = Append(f_dk1, line)
              /\ count_dk1' = count_dk1 + 1
              /\ UNCHANGED <<f_dk2, count_dk2, count_unknown>>
         ELSE IF z = "DK2"
         THEN /\ f_dk2' = Append(f_dk2, line)
              /\ count_dk2' = count_dk2 + 1
              /\ UNCHANGED <<f_dk1, count_dk1, count_unknown>>
         ELSE /\ count_unknown' = count_unknown + 1
              /\ UNCHANGED <<f_dk1, f_dk2, count_dk1, count_dk2>>

\* lines 78-110: one iteration of "for line_num, line in enumerate(infile)"
SplitLine ==
    /\ z_pc = "loop"
    /\ z_pos <= Len(z_infile)
    /\ LET line == Strip(z_infile[z_pos])
           r == Classify(line)
       IN IF line.k = "blank"
          THEN /\ z_pos' = z_pos + 1
               /\ UNCHANGED <<f_dk1, f_dk2, count_dk1, count_dk2, count_unknown,
                              z_invalid, z_pc>>
          ELSE IF r = Raise("JSONDecodeError")
          THEN /\ z_pos' = z_pos + 1
               /\ z_invalid' = z_invalid + 1
               /\ UNCHANGED <<f_dk1, f_dk2, count_dk1, count_dk2, count_unknown, z_pc>>
          ELSE IF r.tag = "raise"
          THEN \* lines 119-120: the outer handler ends the file's processing
               /\ z_pos' = z_pos + 1
               /\ z_pc' = "error"
               /\ UNCHANGED <<f_dk1, f_dk2, count_dk1, count_dk2, count_unknown,
                              z_invalid>>
          ELSE WriteZone(line, r.val)
    /\ UNCHANGED <<z_infile, exceptZone>>

\* lines 112-117: the input is exhausted, the files are closed, the stats printed
SplitDone ==
    /\ z_pc = "loop"
    /\ z_pos > Len(z_infile)
    /\ z_pc' = "done"
    /\ UNCHANGED <<z_infile, z_pos, f_dk1, f_dk2, count_dk1, count_dk2, count_unknown,
                   z_invalid, exceptZone>>

NextSplit == SplitLine \/ SplitDone

SpecSplit == InitSplit /\ [][NextSplit]_vars

(***************************************************************************)
(* 2ensureTimestampConsistency.py : normalize_to_utc                       *)
(*                                                                         *)
(* The value of a time field is [k, h, min, frac, tz, off]:                *)
(*   k : ts    a string datetime.fromisoformat() parses                    *)
(*       text  a non-empty string it rejects (ValueError)                  *)
(*       empty the string ""                                               *)
(*       num   a non-zero JSON number      zero  the number 0              *)
(*       null  JSON null                   list  a non-empty JSON array    *)
(* For a ts string, h is the hour (counted from datetime.min) and min the  *)
(* minute of its wall-clock reading, frac says whether it has a fractional *)
(* second, tz whether it carries a UTC offset and off that offset in whole *)
(* hours.  datetime's range, year 1 to year 9999, is scaled down to the    *)
(* hours 0..MaxHour: arithmetic that leaves it raises OverflowError.       *)
(***************************************************************************)
\* the last representable hour (datetime.max)
MaxHour == 3
\* the largest minute value of a sample timestamp
MaxMin == 1
\* the largest UTC offset of a sample timestamp, in hours
MaxOff == 1

Offsets == (0 - MaxOff)..MaxOff

Ts(h, min, frac, tz, off) ==
    [k |-> "ts", h |-> h, min |-> min, frac |-> frac, tz |-> tz, off |-> off]

TOther(k) == [k |-> k, h |-> 0, min |-> 0, frac |-> FALSE, tz |-> FALSE, off |-> 0]

\* "not timestamp_str"
Falsy(v) == v.k \in {"empty", "zero", "null"}

\* dt.astimezone(timezone.utc): an aware datetime is shifted by its own
\* offset, a naive one is taken to be local time
UtcHour(v) == IF v.tz THEN v.h - v.off ELSE v.h - local_tz

astimezone_utc(v) ==
    IF UtcHour(v) < 0 \/ UtcHour(v) > MaxHour
    THEN Raise("OverflowError")
    ELSE Return(Ts(UtcHour(v), v.min, v.frac, TRUE, 0))

\* lines 9-28
normalize_to_utc(timestamp_str) ==
    IF Falsy(timestamp_str) THEN Return(timestamp_str)
    ELSE IF timestamp_str.k \in {"num", "list"}
    THEN Raise("TypeError")               \* fromisoformat: argument must be str
    ELSE IF timestamp_str.k = "text"
    THEN Return(timestamp_str)            \* except ValueError
    ELSE astimezone_utc(timestamp_str)    \* OverflowError is not a ValueError

SampleTs ==
    {Ts(h, m, f, TRUE, o) : h \in 0..MaxHour, m \in 0..MaxMin, f \in BOOLEAN, o \in Offsets}
      \cup {Ts(h, m, f, FALSE, 0) : h \in 0..MaxHour, m \in 0..MaxMin, f \in BOOLEAN}

SampleTimeVals ==
    SampleTs \cup {TOther(k) : k \in {"text", "empty", "num", "zero", "null", "list"}}

InitNormalize ==
    /\ callFn = "normalize_to_utc"
    /\ callArgs \in {<<v>> : v \in SampleTimeVals}
    /\ callRes = <<>>
    /\ local_tz \in Offsets
    /\ IdleExceptHarness

\* normalize_to_utc(t), then normalize_to_utc of what that call returned
CallNormalize ==
    /\ callFn = "normalize_to_utc"
    /\ Len(callRes) < MaxCalls
    /\ \/ /\ callRes = <<>>
          /\ callRes' = <<normalize_to_utc(callArgs[1])>>
       \/ /\ callRes # <<>>
          /\ callRes[Len(callRes)].tag = "return"
          /\ callRes' = Append(callRes, normalize_to_utc(callRes[Len(callRes)].val))
    /\ UNCHANGED <<callFn, callArgs, local_tz, exceptHarness>>

NextNormalize == CallNormalize

SpecNormalize == InitNormalize /\ [][NextNormalize]_vars

(***************************************************************************)
(* 2ensureTimestampConsistency.py : process_file                           *)
(*                                                                         *)
(* An input line is [k, pad, canon, shape, props]:                         *)
(*   k     : blank | invalid (json.loads raises JSONDecodeError) | json    *)
(*   pad   : whitespace around the text, removed by line.strip()           *)
(*   canon : the text is what json.dumps() prints for its value            *)
(*   shape : ok (an object with a 'properties' object) | no_props (an      *)
(*           object or array without 'properties') | scalar (a number:     *)
(*           "'properties' in data" raises TypeError)                      *)
(*   props : the time fields of 'properties', a function from the field    *)
(*           names present to their values                                 *)
(***************************************************************************)
time_fields == <<"from", "to", "created", "calculatedAt", "observed">>

NoProps == [f \in {} |-> TOther("null")]

NLine(k, pad, canon, shape, props) ==
    [k |-> k, pad |-> pad, canon |-> canon, shape |-> shape, props |-> props]

NJson(canon, props) == NLine("json", FALSE, canon, "ok", props)

NStrip(line) == [line EXCEPT !.pad = FALSE]

\* lines 58-66: the loop over time_fields from index i on; [tag, props, modified]
RECURSIVE NormFields(_, _, _)
NormFields(props, i, modified) ==
    IF i > Len(time_fields)
    THEN [tag |-> "return", props |-> props, modified |-> modified]
    ELSE LET field == time_fields[i] IN
         IF field \notin DOMAIN props
         THEN NormFields(props, i + 1, modified)
         ELSE LET original_time == props[field]
                  new_time == normalize_to_utc(original_time)
              IN IF new_time.tag = "raise"
                 THEN [tag |-> new_time.val, props |-> props, modified |-> modified]
                 ELSE IF original_time # new_time.val
                 THEN NormFields([props EXCEPT ![field] = new_time.val], i + 1,
                                 modified + 1)
                 ELSE NormFields(props, i + 1, modified)

\* lines 48-73 for one stripped, non-blank line: [tag, line, modified], tag
\* "return" with the line written to the temporary file, or the exception
\* that leaves process_file
ProcessLine(line) ==
    IF line.k = "invalid"
    THEN [tag |-> "return", line |-> line, modified |-> 0]      \* written as-is
    ELSE IF line.shape = "scalar"
    THEN [tag |-> "TypeError", line |-> line, modified |-> 0]
    ELSE IF line.shape = "no_props"
    THEN [tag |-> "return", line |-> [line EXCEPT !.canon = TRUE], modified |-> 0]
    ELSE LET r == NormFields(line.props, 1, 0)
         IN [tag |-> r.tag,
             line |-> [line EXCEPT !.canon = TRUE, !.props = r.props],
             modified |-> r.modified]

SampleNLines ==
    { NJson(TRUE, [f \in {"from"} |-> Ts(1, 1, FALSE, TRUE, 1)]),
      NJson(FALSE, [f \in {"from"} |-> Ts(1, 0, TRUE, TRUE, 0)]),
      NJson(TRUE, [f \in {"from", "observed"} |->
                      IF f = "from" THEN TOther("text") ELSE Ts(1, 0, FALSE, FALSE, 0)]),
      NJson(TRUE, [f \in {"from"} |-> TOther("empty")]),
      NJson(TRUE, [f \in {"to"} |-> TOther("num")]),
      NJson(TRUE, [f \in {"from"} |-> Ts(0, 0, FALSE, TRUE, 1)]),
      NLine("json", FALSE, TRUE, "no_props", NoProps),
      NLine("json", FALSE, TRUE, "scalar", NoProps),
      NLine("blank", FALSE, TRUE, "ok", NoProps),
      NLine("invalid", TRUE, FALSE, "ok", NoProps) }

\* the longest input file of the normalizer
MaxNLines == 3

SampleLocalTz == {0, 1}

InitNormFile ==
    /\ callFn = "none" /\ callArgs = <<>> /\ callRes = <<>>
    /\ local_tz \in SampleLocalTz
    /\ IdleExceptNorm
    /\ n_infile \in SeqsUpTo(SampleNLines, MaxNLines)
    /\ n_pos = 1
    /\ n_file = n_infile
    /\ n_tmp = <<>>                       \* just opened with mode 'w'
    /\ modified_count = 0
    /\ line_count = 0
    /\ n_pc = "loop"

\* lines 42-73: one iteration of "for line in infile"
NormLine ==
    /\ n_pc = "loop"
    /\ n_pos <= Len(n_infile)
    /\ LET line == NStrip(n_infile[n_pos])
           r == ProcessLine(line)
       IN IF line.k = "blank"
          THEN /\ n_pos' = n_pos + 1
               /\ UNCHANGED <<n_tmp, modified_count, line_count, n_pc>>
          ELSE IF r.tag # "return"
          THEN \* the exception leaves process_file: os.replace is never reached
               /\ n_pos' = n_pos + 1
               /\ line_count' = line_count + 1
               /\ modified_count' = modified_count + r.modified
               /\ n_pc' = "raised"
               /\ UNCHANGED n_tmp
          ELSE /\ n_pos' = n_pos + 1
               /\ line_count' = line_count + 1
               /\ modified_count' = modified_count + r.modified
               /\ n_tmp' = Append(n_tmp, r.line)
               /\ UNCHANGED n_pc
    /\ UNCHANGED <<n_infile, n_file, exceptNorm>>

\* the end of the with block (lines 39-73): both files are closed
NormClose ==
    /\ n_pc = "loop"
    /\ n_pos > Len(n_infile)
    /\ n_pc' = "closed"
    /\ UNCHANGED <<n_infile, n_pos, n_file, n_tmp, modified_count, line_count,
                   exceptNorm>>

\* os.replace() executed while lines are still being processed
NormReplace_Early ==
    /\ n_pc \in {"loop", "closed"}
    /\ n_file' = n_tmp
    /\ n_tmp' = <<>>
    /\ n_pc' = "done"
    /\ UNCHANGED <<n_infile, n_pos, modified_count, line_count, exceptNorm>>

\* line 76: os.replace(temp_filepath, filepath), one atomic rename
NormReplace ==
    /\ n_pc = "closed"
    /\ n_file' = n_tmp
    /\ n_tmp' = <<>>
    /\ n_pc' = "done"
    /\ UNCHANGED <<n_infile, n_pos, modified_count, line_count, exceptNorm>>

\* the process is stopped from outside at any point before it finishes
NormKill ==
    /\ n_pc \in {"loop", "closed"}
    /\ n_pc' = "killed"
    /\ UNCHANGED <<n_infile, n_pos, n_file, n_tmp, modified_count, line_count,
                   exceptNorm>>

NextNormFile == NormLine \/ NormClose \/ NormReplace \/ NormKill

SpecNormFile == InitNormFile /\ [][NextNormFile]_vars

(***************************************************************************)
(* 4aggregatePerHourPerStation.py                                          *)
(*                                                                         *)
(* An input line is [k, station_id, param_id, value, time_from]:           *)
(*   k          : blank | invalid | json                                   *)
(*   station_id : props.get("stationId"), "" when absent, null or empty    *)
(*   param_id   : props.get("parameterId"), likewise                       *)
(*   value      : [k, n], k in num | str_num (a numeric string) | str_bad  *)
(*                (another string) | list (a JSON array) | null            *)
(*   time_from  : a time-field value as in the normalizer                  *)
(* Values are whole numbers.  A mean is kept in units of 0.0001, the four  *)
(* decimals of the output's "{avg_value:.4f}".                             *)
(***************************************************************************)
SLine(k, sid, param, value, time_from) ==
    [k |-> k, station_id |-> sid, param_id |-> param, value |-> value,
     time_from |-> time_from]

SNum(n) == [k |-> "num", n |-> n]

\* Python's order of the strings that occur as station or parameter
StrOrder == <<"", "S1", "S2", "temp_dry", "wind_speed">>

StrRank(s) == CHOOSE i \in 1..Len(StrOrder) : StrOrder[i] = s

\* get_hourly_timestamp without the split('.') that removes the fractional
\* second: strptime() rejects what is left
get_hourly_timestamp_NoFraction(iso_string) ==
    IF iso_string.k # "ts" THEN [tag |-> "None", h |-> 0]
    ELSE IF iso_string.frac \/ (iso_string.tz /\ iso_string.off < 0)
    THEN [tag |-> "None", h |-> 0]
    ELSE [tag |-> "hour", h |-> iso_string.h]

\* lines 29-44: [tag, h], tag "hour" with the hour bucket or "None".
\* split('+')[0] removes a "+HH:MM" offset, split('.')[0] removes the
\* fractional second and all that follows it; strptime() then accepts the
\* rest only if no offset is left in it.  The hour is the one written in the
\* string: the offset is dropped, not applied.
get_hourly_timestamp(iso_string) ==
    IF iso_string.k # "ts" THEN [tag |-> "None", h |-> 0]
    ELSE IF iso_string.tz /\ iso_string.off < 0 /\ ~iso_string.frac
    THEN [tag |-> "None", h |-> 0]
    ELSE [tag |-> "hour", h |-> iso_string.h]

\* the allow-list never consulted
FilteredOut_Never(param_id) == FALSE

\* line 78
FilteredOut(param_id) == KEEP_PARAMS # {} /\ param_id \notin KEEP_PARAMS

\* line 81 without the test of value
PassesChecks_NoValue(line) ==
    /\ line.station_id # ""
    /\ line.param_id # ""
    /\ ~Falsy(line.time_from)
    /\ get_hourly_timestamp(line.time_from).tag = "hour"

\* line 81 and line 85
PassesChecks(line) ==
    /\ line.station_id # ""
    /\ line.param_id # ""
    /\ line.value.k # "null"
    /\ ~Falsy(line.time_from)
    /\ get_hourly_timestamp(line.time_from).tag = "hour"

KeyOf(line) ==
    <<line.station_id, get_hourly_timestamp(line.time_from).h, line.param_id>>

\* aggregated_data[key] of a defaultdict(lambda: [0.0, 0])
EntryOf(data, key) == IF key \in DOMAIN data THEN data[key] ELSE <<0, 0>>

SetEntry(data, key, entry) ==
    [x \in DOMAIN data \cup {key} |-> IF x = key THEN entry ELSE data[x]]

\* an accumulation that keeps the latest value instead of the sum
Accumulate_Overwrite(entry, v) == <<v, entry[2] + 1>>

\* lines 88-89
Accumulate(entry, v) == <<entry[1] + v, entry[2] + 1>>

\* "{x:.4f}" of x = total / count, in units of 0.0001 (round to nearest; the
\* model's whole-number values never fall on a tie)
Fmt4(total, count) == (2 * total * 10000 + count) \div (2 * count)

KeyLess(a, b) ==
    \/ StrRank(a[1]) < StrRank(b[1])
    \/ a[1] = b[1] /\ a[2] < b[2]
    \/ a[1] = b[1] /\ a[2] = b[2] /\ StrRank(a[3]) < StrRank(b[3])

\* sorted(keys)
RECURSIVE SortedKeys(_)
SortedKeys(S) ==
    IF S = {} THEN <<>>
    ELSE LET m == CHOOSE x \in S : \A y \in S \ {x} : KeyLess(x, y)
         IN <<m>> \o SortedKeys(S \ {m})

SHour(h, min, frac) == Ts(h, min, frac, TRUE, 0)

SampleSLines ==
    { SLine("json", "S1", "temp_dry", SNum(10), SHour(1, 0, FALSE)),
      SLine("json", "S1", "temp_dry", SNum(12), SHour(1, 1, FALSE)),
      SLine("json", "S1", "temp_dry", SNum(14), SHour(1, 1, TRUE)),
      SLine("json", "S2", "temp_dry", SNum(0 - 3), SHour(1, 0, FALSE)),
      SLine("json", "S1", "wind_speed", [k |-> "str_num", n |-> 0], SHour(2, 0, FALSE)),
      SLine("json", "S1", "temp_dry", [k |-> "null", n |-> 0], SHour(1, 0, FALSE)),
      SLine("json", "S1", "wind_speed", [k |-> "str_bad", n |-> 0], SHour(1, 0, FALSE)),
      SLine("json", "S2", "wind_speed", [k |-> "list", n |-> 0], SHour(2, 0, FALSE)),
      SLine("json", "", "temp_dry", SNum(5), SHour(1, 0, FALSE)),
      SLine("json", "S1", "temp_dry", SNum(5), TOther("text")),
      SLine("json", "S1", "", SNum(5), SHour(1, 0, FALSE)),
      SLine("json", "S1", "temp_dry", SNum(5), TOther("null")),
      SLine("blank", "", "", SNum(0), TOther("null")),
      SLine("invalid", "", "", SNum(0), TOther("null")) }

\* the longest input file of the station-hour aggregator
MaxSLines == 3

SampleKeepParams == {{}, {"temp_dry"}}

InitStation ==
    /\ IdleExceptStation
    /\ KEEP_PARAMS \in SampleKeepParams
    /\ s_infile \in SeqsUpTo(SampleSLines, MaxSLines)
    /\ s_pos = 1
    /\ aggregated_data = EmptyMap
    /\ s_todo = <<>>
    /\ s_out = <<>>
    /\ s_pc = "loop"

\* lines 58-92: one iteration of "for line in f"
StationLine ==
    /\ s_pc = "loop"
    /\ s_pos <= Len(s_infile)
    /\ s_pos' = s_pos + 1
    /\ LET line == s_infile[s_pos] IN
       IF line.k \in {"blank", "invalid"} \/ FilteredOut(line.param_id)
          \/ ~PassesChecks(line)
       THEN UNCHANGED <<aggregated_data, s_pc>>
       ELSE LET key == KeyOf(line)
                entry == EntryOf(aggregated_data, key)     \* creates the entry
            IN IF line.value.k = "str_bad"
               THEN \* float(value) raises ValueError: "continue", the entry stays
                    /\ aggregated_data' = SetEntry(aggregated_data, key, entry)
                    /\ UNCHANGED s_pc
               ELSE IF line.value.k = "list"
               THEN \* float(value) raises TypeError, which nothing catches
                    /\ aggregated_data' = SetEntry(aggregated_data, key, entry)
                    /\ s_pc' = "raised"
               ELSE /\ aggregated_data' =
                          SetEntry(aggregated_data, key, Accumulate(entry, line.value.n))
                    /\ UNCHANGED s_pc
    /\ UNCHANGED <<KEEP_PARAMS, s_infile, s_todo, s_out, exceptStation>>

\* lines 103-108: the output is opened, the header written, the keys sorted
StationSort ==
    /\ s_pc = "loop"
    /\ s_pos > Len(s_infile)
    /\ s_todo' = SortedKeys(DOMAIN aggregated_data)
    /\ s_pc' = "write"
    /\ UNCHANGED <<KEEP_PARAMS, s_infile, s_pos, aggregated_data, s_out, exceptStation>>

\* lines 110-116: one iteration of "for key in sorted_keys"
StationWriteRow ==
    /\ s_pc = "write"
    /\ s_todo # <<>>
    /\ LET key == Head(s_todo)
           total_sum == aggregated_data[key][1]
           count == aggregated_data[key][2]
       IN IF count = 0
          THEN \* total_sum / count raises ZeroDivisionError
               /\ s_pc' = "raised"
               /\ UNCHANGED <<s_todo, s_out>>
          ELSE /\ s_out' = Append(s_out, [station_id |-> key[1],
                                          timestamp_utc |-> key[2],
                                          parameter |-> key[3],
                                          value_avg |-> Fmt4(total_sum, count),
                                          count |-> count])
               /\ s_todo' = Tail(s_todo)
               /\ UNCHANGED s_pc
    /\ UNCHANGED <<KEEP_PARAMS, s_infile, s_pos, aggregated_data, exceptStation>>

\* lines 116-119: the last row is written and the file closed
StationDone ==
    /\ s_pc = "write"
    /\ s_todo = <<>>
    /\ s_pc' = "done"
    /\ UNCHANGED <<KEEP_PARAMS, s_infile, s_pos, aggregated_data, s_todo, s_out,
                   exceptStation>>

NextStation == StationLine \/ StationSort \/ StationWriteRow \/ StationDone

SpecStation == InitStation /\ [][NextStation]_vars

(***************************************************************************)
(* 5aggregatePerHourPerRegion.py                                           *)
(*                                                                         *)
(* An input row is [station_id, timestamp_utc, parameter, value_avg,       *)
(* count]; value_avg is [k, n]: k = "num" for a text float() parses, n its *)
(* value (a whole number), or k = "bad" for a text float() rejects.        *)
(* An output row is [Timestamp_UTC, cells, Stations_Reporting_Min,         *)
(* Stations_Reporting_Max]; cells maps every parameter column to           *)
(* [k, n]: k = "num" with n in units of 0.0001, or k = "empty" for the     *)
(* empty string.                                                           *)
(***************************************************************************)
RRow(sid, ts, param, value_avg, count) ==
    [station_id |-> sid, timestamp_utc |-> ts, parameter |-> param,
     value_avg |-> value_avg, count |-> count]

\* line 74: the start value of min_stations
MIN_STATIONS_START == 9999

SampleRRows ==
    { RRow("S1", 1, "temp_dry", SNum(12), 3),
      RRow("S2", 1, "temp_dry", SNum(8), 1),
      RRow("S1", 1, "wind_speed", SNum(0), 1),
      RRow("S2", 2, "temp_dry", SNum(0 - 3), 2),
      RRow("S2", 1, "wind_speed", [k |-> "bad", n |-> 0], 1),
      RRow("S1", 2, "wind_speed", SNum(5), 4) }

\* the longest input table of the regional aggregator
MaxRRows == 3

\* an accumulation weighted by the row's count column
RegionAccumulate_Weighted(stats, row) ==
    <<stats[1] + row.value_avg.n * row.count, stats[2] + row.count>>

\* lines 44-46; the row's count column is not read
RegionAccumulate(stats, row) == <<stats[1] + row.value_avg.n, stats[2] + 1>>

InitRegion ==
    /\ IdleExceptRegion
    /\ r_infile \in SeqsUpTo(SampleRRows, MaxRRows)
    /\ r_pos = 1
    /\ timestamps = NoTimes
    /\ all_parameters = {}
    /\ r_todo = <<>>
    /\ r_out = <<>>
    /\ r_pc = "loop"

\* lines 34-48: one iteration of "for row in reader"
RegionRow ==
    /\ r_pc = "loop"
    /\ r_pos <= Len(r_infile)
    /\ r_pos' = r_pos + 1
    /\ LET row == r_infile[r_pos]
           ts == row.timestamp_utc
           param == row.parameter
       IN IF row.value_avg.k # "num"
          THEN UNCHANGED <<timestamps, all_parameters>>      \* except ValueError
          ELSE LET of_ts == IF ts \in DOMAIN timestamps THEN timestamps[ts] ELSE EmptyMap
                   stats == EntryOf(of_ts, param)
                   new_ts == SetEntry(of_ts, param, RegionAccumulate(stats, row))
               IN /\ timestamps' = [x \in DOMAIN timestamps \cup {ts} |->
                                        IF x = ts THEN new_ts ELSE timestamps[x]]
                  /\ all_parameters' = all_parameters \cup {param}
    /\ UNCHANGED <<r_infile, r_todo, r_out, r_pc, exceptRegion>>

\* sorted(timestamps.keys())
RECURSIVE SortedTimes(_)
SortedTimes(S) ==
    IF S = {} THEN <<>>
    ELSE LET m == CHOOSE x \in S : \A y \in S : x <= y
         IN <<m>> \o SortedTimes(S \ {m})

\* lines 53-68: the parameters are sorted, the header written, the times sorted
RegionSort ==
    /\ r_pc = "loop"
    /\ r_pos > Len(r_infile)
    /\ r_todo' = SortedTimes(DOMAIN timestamps)
    /\ r_pc' = "write"
    /\ UNCHANGED <<r_infile, r_pos, timestamps, all_parameters, r_out, exceptRegion>>

Min2(a, b) == IF a < b THEN a ELSE b
Max2(a, b) == IF a > b THEN a ELSE b

\* lines 74-85: min_stations and max_stations after the loop over param_list
RECURSIVE MinStations(_, _)
MinStations(of_ts, params) ==
    IF params = {} THEN MIN_STATIONS_START
    ELSE LET p == CHOOSE x \in params : TRUE
         IN Min2(of_ts[p][2], MinStations(of_ts, params \ {p}))

RECURSIVE MaxStations(_, _)
MaxStations(of_ts, params) ==
    IF params = {} THEN 0
    ELSE LET p == CHOOSE x \in params : TRUE
         IN Max2(of_ts[p][2], MaxStations(of_ts, params \ {p}))

\* lines 77-88: the cell of one parameter column
Cell(of_ts, param) ==
    IF param \in DOMAIN of_ts
    THEN [k |-> "num", n |-> Fmt4(of_ts[param][1], of_ts[param][2])]
    ELSE [k |-> "empty", n |-> 0]

\* lines 70-95: one iteration of "for ts in sorted_times"
RegionWriteRow ==
    /\ r_pc = "write"
    /\ r_todo # <<>>
    /\ LET ts == Head(r_todo)
           of_ts == timestamps[ts]
           present == all_parameters \cap DOMAIN of_ts
           min_stations == MinStations(of_ts, present)
       IN r_out' = Append(r_out,
             [Timestamp_UTC |-> ts,
              cells |-> [p \in all_parameters |-> Cell(of_ts, p)],
              Stations_Reporting_Min |->
                  IF min_stations = MIN_STATIONS_START THEN 0 ELSE min_stations,
              Stations_Reporting_Max |-> MaxStations(of_ts, present)])
    /\ r_todo' = Tail(r_todo)
    /\ UNCHANGED <<r_infile, r_pos, timestamps, all_parameters, r_pc, exceptRegion>>

\* lines 95-98: the last row is written and the file closed
RegionDone ==
    /\ r_pc = "write"
    /\ r_todo = <<>>
    /\ r_pc' = "done"
    /\ UNCHANGED <<r_infile, r_pos, timestamps, all_parameters, r_todo, r_out,
                   exceptRegion>>

NextRegion == RegionRow \/ RegionSort \/ RegionWriteRow \/ RegionDone

SpecRegion == InitRegion /\ [][NextRegion]_vars

(***************************************************************************)
(* 6cleanMostlyEmptyOrBoringColumns.py : configuration                     *)
(***************************************************************************)
\* the thresholds in hundredths: 0.90 and 0.95.  missing_count / rows and
\* count / total are correctly rounded, so a quotient equal to the decimal
\* gives the same double as the literal, and "quotient > literal" is
\* "100 * numerator > threshold * denominator" for every table that fits in
\* memory.
MISSING_THRESHOLD == 90
DOMINANCE_THRESHOLD == 95

ALWAYS_KEEP == {"Timestamp_UTC", "wind_speed", "radia_glob", "temp_dry",
                "mean_cloud_cover", "Stations_Reporting_Min"}

(***************************************************************************)
(* Tables.  A CSV file is a sequence of columns [name, cells]; all columns *)
(* have the same number of cells.  The empty cell "" is what read_csv      *)
(* turns into NaN.  A file is [k, cols] with k in absent | unreadable |    *)
(* table.                                                                  *)
(***************************************************************************)
Column(name, cells) == [name |-> name, cells |-> cells]

Absent == [k |-> "absent", cols |-> <<>>]
Unreadable == [k |-> "unreadable", cols |-> <<>>]
Table(cols) == [k |-> "table", cols |-> cols]

\* len(df)
Rows(cols) == IF cols = <<>> THEN 0 ELSE Len(cols[1].cells)

\* df[col].isna().sum()
MissingCount(cells) == Cardinality({i \in 1..Len(cells) : cells[i] = ""})

\* df[col].value_counts(dropna=True): the count of the most frequent value,
\* 0 when the series is empty
TopCount(cells) ==
    LET values == {cells[i] : i \in 1..Len(cells)} \ {""}
        count(v) == Cardinality({i \in 1..Len(cells) : cells[i] = v})
    IN IF values = {} THEN 0
       ELSE CHOOSE n \in {count(v) : v \in values} :
                \A v \in values : count(v) <= n

\* line 52: "if col in ALWAYS_KEEP: continue"
InAlwaysKeep_Never(name) == FALSE

InAlwaysKeep(name) == name \in ALWAYS_KEEP

\* line 61 with the comparison written ">="
MostlyEmpty_Ge(missing_count, rows) == missing_count * 100 >= MISSING_THRESHOLD * rows

\* lines 59-61: missing_pct > MISSING_THRESHOLD
MostlyEmpty(missing_count, rows) == missing_count * 100 > MISSING_THRESHOLD * rows

\* line 77 with the comparison written ">="
Dominated_Ge(top, nonmissing) ==
    nonmissing > 0 /\ top * 100 >= DOMINANCE_THRESHOLD * nonmissing

\* lines 71-77: value_counts not empty and its first share > DOMINANCE_THRESHOLD
Dominated(top, nonmissing) ==
    nonmissing > 0 /\ top * 100 > DOMINANCE_THRESHOLD * nonmissing

\* glob.glob("*_regional_timeseries.csv") in a directory
Glob(fs) == {f \in DOMAIN fs : fs[f].k # "absent" /\ f.tag = ""}

\* line 113: "_cleaned" in f
HasCleaned(f) == f.tag = "_cleaned" \/ f.stem = "DK2_cleaned"

\* the output written over the input
OutputName_InPlace(f) == f

\* lines 92-93: splitext(filename)[0] + "_cleaned.csv"
OutputName(f) == FName(f.stem, "_cleaned")

\* line 89: df.drop(columns=cols_to_drop)
Drop(cols, names) ==
    SelectSeq(cols, LAMBDA c : ~(\E i \in 1..Len(names) : names[i] = c.name))

(***************************************************************************)
(* Inputs of the pruner.  The directory holds DK1_regional_timeseries.csv  *)
(* (any sample table, or unreadable), possibly a stale                     *)
(* DK1_regional_timeseries_cleaned.csv, and                                *)
(* DK2_cleaned_regional_timeseries.csv, which matches the pattern and has  *)
(* "_cleaned" in its name.                                                 *)
(***************************************************************************)
MaxRows == 20

\* m empty cells, then a cells "a", then b cells "b"
Cells(m, a, b) ==
    [i \in 1..(m + a + b) |-> IF i <= m THEN "" ELSE IF i <= m + a THEN "a" ELSE "b"]

SampleCells(rows) ==
    UNION {{Cells(m, a, rows - m - a) : a \in 0..(rows - m)} : m \in 0..rows}

\* a timestamp column, one column of every shape under a protected or an
\* unprotected name, and possibly an all-empty column
SampleTables ==
    UNION {
        {<<Column("Timestamp_UTC", Cells(0, rows, 0)), Column(name, cells)>> \o extra :
            name \in {"temp_dry", "snow_depth"},
            cells \in SampleCells(rows),
            extra \in {<<>>, <<Column("precip", Cells(rows, 0, 0))>>}}
        : rows \in 0..MaxRows}

StaleTable == <<Column("Timestamp_UTC", <<"b">>)>>

SkippedTable == <<Column("Timestamp_UTC", <<"a">>), Column("precip", <<"">>)>>

SampleFileNames == {FName(stem, tag) : stem \in {"DK1", "DK2_cleaned"},
                                      tag \in {"", "_cleaned"}}

(***************************************************************************)
(* 6cleanMostlyEmptyOrBoringColumns.py : the script (lines 106-115) and    *)
(* clean_dataset (lines 32-100)                                            *)
(***************************************************************************)
InitPrune ==
    /\ \E input \in {Table(t) : t \in SampleTables} \cup {Unreadable},
          stale \in {Absent, Table(StaleTable)} :
          p_fs = [f \in SampleFileNames |->
                     CASE f = FName("DK1", "") -> input
                       [] f = FName("DK1", "_cleaned") -> stale
                       [] f = FName("DK2_cleaned", "") -> Table(SkippedTable)
                       [] OTHER -> Absent]
    /\ p_files = Glob(p_fs)
    /\ p_cur = NoFile /\ df = <<>> /\ p_col = 0
    /\ cols_to_drop = <<>> /\ reasons = NoReasons /\ p_counted = {}
    /\ p_report = <<>>
    /\ p_pc = "main"
    /\ IdleExceptPrune

\* one turn of "for f in files" up to the column loop of clean_dataset(f):
\* the "_cleaned" skip, read_csv and its except, the empty-file return
PruneOpen ==
    /\ p_pc = "main"
    /\ \E f \in p_files :
          /\ p_files' = p_files \ {f}
          /\ IF HasCleaned(f) \/ p_fs[f].k # "table" \/ Rows(p_fs[f].cols) = 0
             THEN UNCHANGED <<p_cur, df, p_col, cols_to_drop, reasons, p_counted,
                              p_report, p_pc>>
             ELSE /\ p_cur' = f
                  /\ df' = p_fs[f].cols
                  /\ p_col' = 1
                  /\ cols_to_drop' = <<>>
                  /\ reasons' = NoReasons
                  /\ p_counted' = {}
                  /\ p_report' = <<>>
                  /\ p_pc' = "loop"
    /\ UNCHANGED <<p_fs, exceptPrune>>

\* lines 51-79 with the "continue" of line 64 left out
CheckColumn_NoContinue(col, rows, acc) ==
    LET missing_count == MissingCount(col.cells)
        sparse == MostlyEmpty(missing_count, rows)
        acc1 == IF sparse
                THEN [acc EXCEPT !.cols_to_drop = Append(@, col.name),
                                 !.reasons = [c \in DOMAIN @ \cup {col.name} |->
                                     IF c = col.name THEN "Mostly Empty" ELSE @[c]]]
                ELSE acc
        acc2 == [acc1 EXCEPT !.counted = @ \cup {col.name}]
    IN IF InAlwaysKeep(col.name) THEN acc
       ELSE IF Dominated(TopCount(col.cells), rows - missing_count)
            THEN [acc2 EXCEPT !.cols_to_drop = Append(@, col.name),
                              !.reasons = [c \in DOMAIN @ \cup {col.name} |->
                                  IF c = col.name THEN "Constant Value" ELSE @[c]]]
            ELSE acc2

\* lines 51-79 with the dominant share taken over all rows instead of the
\* non-missing cells
CheckColumn_ShareOfRows(col, rows, acc) ==
    LET missing_count == MissingCount(col.cells)
    IN IF InAlwaysKeep(col.name) THEN acc
       ELSE IF MostlyEmpty(missing_count, rows)
            THEN [acc EXCEPT !.cols_to_drop = Append(@, col.name),
                             !.reasons = [c \in DOMAIN @ \cup {col.name} |->
                                 IF c = col.name THEN "Mostly Empty" ELSE @[c]]]
       ELSE LET acc2 == [acc EXCEPT !.counted = @ \cup {col.name}]
            IN IF Dominated(TopCount(col.cells), rows)
               THEN [acc2 EXCEPT !.cols_to_drop = Append(@, col.name),
                                 !.reasons = [c \in DOMAIN @ \cup {col.name} |->
                                     IF c = col.name THEN "Constant Value" ELSE @[c]]]
               ELSE acc2

\* lines 51-79: the body of "for col in df.columns" on
\* acc = [cols_to_drop, reasons, counted]
CheckColumn(col, rows, acc) ==
    LET missing_count == MissingCount(col.cells)
    IN IF InAlwaysKeep(col.name) THEN acc
       ELSE IF MostlyEmpty(missing_count, rows)
            THEN [acc EXCEPT !.cols_to_drop = Append(@, col.name),
                             !.reasons = [c \in DOMAIN @ \cup {col.name} |->
                                 IF c = col.name THEN "Mostly Empty" ELSE @[c]]]
       ELSE LET acc2 == [acc EXCEPT !.counted = @ \cup {col.name}]
            IN IF Dominated(TopCount(col.cells), rows - missing_count)
               THEN [acc2 EXCEPT !.cols_to_drop = Append(@, col.name),
                                 !.reasons = [c \in DOMAIN @ \cup {col.name} |->
                                     IF c = col.name THEN "Constant Value" ELSE @[c]]]
               ELSE acc2

PruneColumn ==
    /\ p_pc = "loop"
    /\ p_col <= Len(df)
    /\ LET acc == CheckColumn(df[p_col], Rows(df),
                     [cols_to_drop |-> cols_to_drop, reasons |-> reasons,
                      counted |-> p_counted])
       IN /\ cols_to_drop' = acc.cols_to_drop
          /\ reasons' = acc.reasons
          /\ p_counted' = acc.counted
    /\ p_col' = p_col + 1
    /\ UNCHANGED <<p_fs, p_files, p_cur, df, p_report, p_pc, exceptPrune>>

\* lines 84-98: the report and the save, or "File is already clean"
PruneSave ==
    /\ p_pc = "loop"
    /\ p_col > Len(df)
    /\ IF cols_to_drop # <<>>
       THEN /\ p_report' = [i \in 1..Len(cols_to_drop) |->
                               <<cols_to_drop[i], reasons[cols_to_drop[i]]>>]
            /\ p_fs' = [p_fs EXCEPT ![OutputName(p_cur)] =
                                        Table(Drop(df, cols_to_drop))]
       ELSE UNCHANGED <<p_fs, p_report>>
    /\ p_pc' = "main"
    /\ UNCHANGED <<p_files, p_cur, df, p_col, cols_to_drop, reasons, p_counted,
                   exceptPrune>>

PruneDone ==
    /\ p_pc = "main"
    /\ p_files = {}
    /\ p_pc' = "done"
    /\ UNCHANGED <<p_fs, p_files, p_cur, df, p_col, cols_to_drop, reasons,
                   p_counted, p_report, exceptPrune>>

NextPrune == PruneOpen \/ PruneColumn \/ PruneSave \/ PruneDone

SpecPrune == InitPrune /\ [][NextPrune]_vars

(***************************************************************************)
(* calculate_regional_averages on a crowded hour: a file of n rows, every  *)
(* one the same hour, parameter and value_avg from another station (the    *)
(* code reads no station_id), with n around the start value of             *)
(* min_stations.  The read loop adds value_avg to the sum and 1 to the     *)
(* count at every row, so after k rows of value 0 the accumulator is       *)
(* hour -> (parameter -> <<0, k>>); the specification starts the loop at   *)
(* one of the last CrowdTail rows in that state and takes the steps of     *)
(* NextRegion from there.                                                  *)
(***************************************************************************)
\* how many rows before the end of the file the read loop is picked up
CrowdTail == 40
\* how far above the start value of min_stations the number of rows goes
MaxExtraStations == 1

CrowdRow == RRow("S1", 1, "wind_speed", SNum(0), 1)

CrowdFile(n) == [i \in 1..n |-> CrowdRow]

\* the accumulator after the first k rows of a crowd file
CrowdRead(k) ==
    IF k = 0 THEN NoTimes
    ELSE [ts \in {CrowdRow.timestamp_utc} |->
             [param \in {CrowdRow.parameter} |-> <<k * CrowdRow.value_avg.n, k>>]]

InitRegionCrowd ==
    /\ IdleExceptRegion
    /\ \E n \in (MIN_STATIONS_START - 1)..(MIN_STATIONS_START + MaxExtraStations) :
          /\ r_infile = CrowdFile(n)
          /\ r_pos \in (n - CrowdTail + 1)..(n + 1)
    /\ timestamps = CrowdRead(r_pos - 1)
    /\ all_parameters = {CrowdRow.parameter}
    /\ r_todo = <<>>
    /\ r_out = <<>>
    /\ r_pc = "loop"

SpecRegionCrowd == InitRegionCrowd /\ [][NextRegion]_vars

(***************************************************************************)
(* The two stages on one time field: 2ensureTimestampConsistency.py writes *)
(* normalize_to_utc(t) into the record, 4aggregatePerHourPerStation.py     *)
(* reads it back and buckets it.  The harness does this for two            *)
(* observation times.                                                      *)
(***************************************************************************)
InitBucket ==
    /\ callFn = "get_hourly_timestamp"
    /\ callArgs \in {<<v, w>> : v \in SampleTs, w \in SampleTs}
    /\ callRes = <<>>
    /\ local_tz \in Offsets
    /\ IdleExceptHarness

\* process_file: the 'from' field of each record becomes normalize_to_utc of it
BucketNormalize ==
    /\ callFn = "get_hourly_timestamp"
    /\ callRes = <<>>
    /\ callRes' = <<normalize_to_utc(callArgs[1]), normalize_to_utc(callArgs[2])>>
    /\ UNCHANGED <<callFn, callArgs, local_tz, exceptHarness>>

\* process_station_averages: hour_key = get_hourly_timestamp(observed_time),
\* for the records the normalizer wrote
BucketHour ==
    /\ callFn = "get_hourly_timestamp"
    /\ Len(callRes) = 2
    /\ callRes[1].tag = "return" /\ callRes[2].tag = "return"
    /\ callRes' = callRes \o <<get_hourly_timestamp(callRes[1].val),
                               get_hourly_timestamp(callRes[2].val)>>
    /\ UNCHANGED <<callFn, callArgs, local_tz, exceptHarness>>

NextBucket == BucketNormalize \/ BucketHour

SpecBucket == InitBucket /\ [][NextBucket]_vars

(***************************************************************************)
(* Code/Prices/0runPreprocessing.py : the stage orchestrator.              *)
(* main() walks SCRIPTS_TO_RUN; run_script starts one child interpreter,   *)
(* waits for it and reports whether it succeeded.                          *)
(***************************************************************************)
MaxScripts == 3
MaxExitCode == 2
MaxSignal == 1

ScriptNames == {"1energyPricesReorderRenameTimesortingMergeSplit.py",
                "2removeBoringEmptyCoulmns.py",
                "3extra.py"}

\* the configured list ("List your scripts here in the order they should run")
SampleScripts == UNION {[1..n -> ScriptNames] : n \in 0..MaxScripts}

\* what subprocess.run([sys.executable, script_name], check=True) can do:
\* the child runs and ends with a return code (negative when a signal killed
\* it), or no child is created and an OSError is raised
Exited(code) == [k |-> "exit", code |-> code]
LaunchError(e) == [k |-> e, code |-> 0]
ReturnCodes == (0 - MaxSignal)..MaxExitCode
LaunchErrors == {"FileNotFoundError", "PermissionError"}

\* run_script without check=True: CalledProcessError is never raised
run_script_NoCheck(outcome) ==
    IF outcome.k = "exit" THEN Return(TRUE)
    ELSE IF outcome.k = "FileNotFoundError" THEN Return(FALSE)
    ELSE Raise(outcome.k)

\* run_script: True after a child that returned 0; False after
\* CalledProcessError (non-zero return code) and after FileNotFoundError;
\* any other exception leaves the function
run_script(outcome) ==
    IF outcome.k = "exit" THEN Return(outcome.code = 0)
    ELSE IF outcome.k = "FileNotFoundError" THEN Return(FALSE)
    ELSE Raise(outcome.k)

InitOrch ==
    /\ SCRIPTS_TO_RUN \in SampleScripts
    /\ o_next = 1
    /\ o_child = ""
    /\ o_started = <<>>
    /\ o_results = <<>>
    /\ o_log = <<>>
    /\ o_exit = 0 - 1
    /\ o_pc = "main"
    /\ IdleExceptOrch

\* main after "success = run_script(script)": the loop goes on, or
\* sys.exit(1); an exception out of run_script ends the interpreter with a
\* traceback and exit status 1
OrchReturn(outcome) ==
    LET r == run_script(outcome) IN
    /\ o_results' = Append(o_results, outcome)
    /\ o_child' = ""
    /\ IF r.tag = "raise"
       THEN /\ o_log' = Append(o_log, "Traceback (most recent call last):")
            /\ o_exit' = 1
            /\ o_pc' = "exited"
            /\ UNCHANGED o_next
       ELSE IF r.val
       THEN /\ o_next' = o_next + 1
            /\ o_pc' = "main"
            /\ UNCHANGED <<o_log, o_exit>>
       ELSE /\ o_log' = Append(o_log, "Pipeline stopped due to error.")
            /\ o_exit' = 1
            /\ o_pc' = "exited"
            /\ UNCHANGED o_next

\* for script in SCRIPTS_TO_RUN: run_script(script) creates the child process
OrchStart ==
    /\ o_pc = "main"
    /\ o_next <= Len(SCRIPTS_TO_RUN)
    /\ o_child' = SCRIPTS_TO_RUN[o_next]
    /\ o_started' = Append(o_started, SCRIPTS_TO_RUN[o_next])
    /\ o_pc' = "wait"
    /\ UNCHANGED <<SCRIPTS_TO_RUN, o_next, o_results, o_log, o_exit, exceptOrch>>

\* for script in SCRIPTS_TO_RUN: subprocess.run cannot create the child
OrchLaunchFails ==
    /\ o_pc = "main"
    /\ o_next <= Len(SCRIPTS_TO_RUN)
    /\ \E e \in LaunchErrors : OrchReturn(LaunchError(e))
    /\ UNCHANGED <<SCRIPTS_TO_RUN, o_started, exceptOrch>>

\* the child ends; subprocess.run returns or raises CalledProcessError
OrchChildExits ==
    /\ o_pc = "wait"
    /\ \E code \in ReturnCodes : OrchReturn(Exited(code))
    /\ UNCHANGED <<SCRIPTS_TO_RUN, o_started, exceptOrch>>

\* the loop is exhausted: the last print of main, then the normal end
OrchAllDone ==
    /\ o_pc = "main"
    /\ o_next > Len(SCRIPTS_TO_RUN)
    /\ o_log' = Append(o_log, "All scripts executed successfully!")
    /\ o_exit' = 0
    /\ o_pc' = "exited"
    /\ UNCHANGED <<SCRIPTS_TO_RUN, o_next, o_child, o_started, o_results, exceptOrch>>

NextOrch == OrchStart \/ OrchLaunchFails \/ OrchChildExits \/ OrchAllDone

SpecOrch == InitOrch /\ [][NextOrch]_vars

(***************************************************************************)
(* Claims about get_zone (checked under SpecGetZone)                       *)
(***************************************************************************)
ArgSid == callArgs[1]
ArgCoords == callArgs[2]

\* float(coordinates[0]) is reached and gives a float
LonAvailable(c) ==
    /\ c.k \in {"list", "str"}
    /\ Len(c.items) >= 1
    /\ PyFloat(c.items[1]).tag \in {"ok", "nan"}

\* C3: a station ID of DK1_STATION_IDS is classified DK1 and one of
\* DK2_STATION_IDS is classified DK2 whatever the coordinates argument is,
\* and the two ID sets are disjoint.
C3_ListedIdDecides ==
    /\ DK1_STATION_IDS \cap DK2_STATION_IDS = {}
    /\ \A i \in 1..Len(callRes) :
          /\ InIdSet(ArgSid, DK1_STATION_IDS) => callRes[i] = Return("DK1")
          /\ InIdSet(ArgSid, DK2_STATION_IDS) => callRes[i] = Return("DK2")

\* a DK1 station whose longitude lies east of the cutoff has been classified
C3_Witness ==
    /\ Len(callRes) >= 1
    /\ InIdSet(ArgSid, DK1_STATION_IDS)
    /\ ArgCoords.k = "list" /\ Len(ArgCoords.items) >= 1
    /\ ArgCoords.items[1] = Elem("num", LONGITUDE_CUTOFF + 1)
    /\ callRes[1] = Return("DK1")

\* C4: for an ID in neither set and a coordinates list whose first element is
\* a number, the zone is DK1 when longitude < LONGITUDE_CUTOFF and DK2 when
\* longitude >= LONGITUDE_CUTOFF (the cutoff itself gives DK2).
C4_LongitudeFallback ==
    \A i \in 1..Len(callRes) :
        ( /\ Hashable(ArgSid)
          /\ ~InIdSet(ArgSid, DK1_STATION_IDS)
          /\ ~InIdSet(ArgSid, DK2_STATION_IDS)
          /\ ArgCoords.k = "list" /\ Len(ArgCoords.items) >= 1
          /\ ArgCoords.items[1].k = "num" )
        => /\ ArgCoords.items[1].n < LONGITUDE_CUTOFF => callRes[i] = Return("DK1")
           /\ ArgCoords.items[1].n >= LONGITUDE_CUTOFF => callRes[i] = Return("DK2")

\* an unlisted station exactly on the cutoff meridian has been classified DK2
C4_Witness ==
    /\ Len(callRes) >= 1
    /\ ArgSid = SidStr("99999")
    /\ ArgCoords = CoordList(<<Elem("num", LONGITUDE_CUTOFF)>>)
    /\ callRes[1] = Return("DK2")

\* C5: get_zone is total and deterministic: for every station_id and every
\* coordinates value it returns (never raises) one of DK1, DK2, UNKNOWN, the
\* same on every call, and UNKNOWN exactly when the ID is in neither set and
\* no numeric longitude is available.
C5_TotalDeterministic ==
    \A i \in 1..Len(callRes) :
        /\ callRes[i].tag = "return"
        /\ callRes[i].val \in {"DK1", "DK2", "UNKNOWN"}
        /\ callRes[i] = callRes[1]
        /\ callRes[i].val = "UNKNOWN"
              <=> ( /\ ~InIdSet(ArgSid, DK1_STATION_IDS)
                    /\ ~InIdSet(ArgSid, DK2_STATION_IDS)
                    /\ ~LonAvailable(ArgCoords) )

(***************************************************************************)
(* Claims about split_file_by_zone (checked under SpecSplit)               *)
(***************************************************************************)
\* the lines the loop has gone through
ZSeen == 1..(z_pos - 1)

\* the lines (by position) the classifier gave zone z
ZClassified(z) ==
    {i \in ZSeen : Strip(z_infile[i]).k # "blank"
                    /\ Classify(Strip(z_infile[i])) = Return(z)}

SeqRange(s) == {s[i] : i \in 1..Len(s)}

\* C6: a record classified UNKNOWN is written to neither output and is
\* counted in count_unknown; every line of the DK1 output was classified
\* DK1 and every line of the DK2 output was classified DK2.
C6_UnknownExcluded ==
    /\ \A l \in SeqRange(f_dk1) : Classify(l) = Return("DK1")
    /\ \A l \in SeqRange(f_dk2) : Classify(l) = Return("DK2")
    /\ count_unknown = Cardinality(ZClassified("UNKNOWN"))
    /\ Len(f_dk1) + Len(f_dk2) = Cardinality(ZClassified("DK1") \cup ZClassified("DK2"))

\* an UNKNOWN record has been counted while both outputs also hold lines
C6_Witness ==
    /\ count_unknown >= 1
    /\ Len(f_dk1) >= 1
    /\ Len(f_dk2) >= 1

(***************************************************************************)
(* Claims about normalize_to_utc (checked under SpecNormalize)             *)
(***************************************************************************)
\* the instant a timestamp string with an offset denotes, in hours from
\* datetime.min at UTC (it may lie outside 0..MaxHour) and minutes
Instant(v) == <<v.h - v.off, v.min, v.frac>>

\* C7: for every timestamp string t with a UTC offset, normalize_to_utc(t)
\* is a timestamp string that denotes the same instant as t and carries the
\* offset +00:00, and normalize_to_utc(normalize_to_utc(t)) equals
\* normalize_to_utc(t).
C7_SameInstantUtcIdempotent ==
    (callRes # <<>> /\ callArgs[1].k = "ts" /\ callArgs[1].tz)
    => /\ callRes[1].tag = "return"
       /\ callRes[1].val.k = "ts"
       /\ callRes[1].val.tz /\ callRes[1].val.off = 0
       /\ Instant(callRes[1].val) = Instant(callArgs[1])
       /\ Len(callRes) >= 2 => callRes[2] = callRes[1]

\* the same statement for the timestamps whose UTC reading datetime can
\* represent (an auxiliary property; it holds)
NormalizeInRange ==
    (callRes # <<>> /\ callArgs[1].k = "ts" /\ callArgs[1].tz
       /\ callArgs[1].h - callArgs[1].off \in 0..MaxHour)
    => /\ callRes[1].tag = "return"
       /\ callRes[1].val.k = "ts"
       /\ callRes[1].val.tz /\ callRes[1].val.off = 0
       /\ Instant(callRes[1].val) = Instant(callArgs[1])
       /\ Len(callRes) >= 2 => callRes[2] = callRes[1]

(***************************************************************************)
(* Claims about process_file (checked under SpecNormFile)                  *)
(***************************************************************************)
\* what has been written so far: the temporary file, or after the replace the
\* canonical file
NWritten == IF n_pc = "done" THEN n_file ELSE n_tmp

\* the number of non-blank lines among the first i input lines
NonBlankUpTo(i) == Cardinality({j \in 1..i : n_infile[j].k # "blank"})

\* a value that is no timestamp
Unparseable(v) == v.k \in {"text", "empty", "num", "zero", "null", "list"}

\* C8: a time-field value that cannot be parsed as a timestamp (an empty or
\* non-timestamp string, a number or another JSON value that is not a
\* string) is left unchanged without an error: process_file writes the
\* record with that value and goes on to the following lines.
C8_UnparseableKept ==
    \A i \in 1..(n_pos - 1) :
        ( /\ n_infile[i].k = "json" /\ n_infile[i].shape = "ok"
          /\ \A f \in DOMAIN n_infile[i].props : Unparseable(n_infile[i].props[f]) )
        => /\ ~(n_pc = "raised" /\ i = n_pos - 1)
           /\ NonBlankUpTo(i) <= Len(NWritten)
           /\ NWritten[NonBlankUpTo(i)].props = n_infile[i].props

\* the whole file as process_file rewrites it, when no line raises
RECURSIVE Normalized(_)
Normalized(lines) ==
    IF lines = <<>> THEN <<>>
    ELSE LET line == NStrip(Head(lines)) IN
         IF line.k = "blank" THEN Normalized(Tail(lines))
         ELSE <<ProcessLine(line).line>> \o Normalized(Tail(lines))

Completes(lines) ==
    \A i \in 1..Len(lines) :
        lines[i].k = "blank" \/ ProcessLine(NStrip(lines[i])).tag = "return"

\* C9: at every point of a run, stopped or not, the canonical path holds
\* either the complete original content or the complete normalized content;
\* it is replaced only after every input line has been processed and written
\* to the temporary file.
C9_AtomicReplace ==
    /\ n_pc # "done" => n_file = n_infile
    /\ n_pc = "done" => /\ n_pos > Len(n_infile)
                        /\ Completes(n_infile)
                        /\ n_file = Normalized(n_infile)

\* a file of at least two records has been rewritten with changed content
C9_Witness ==
    /\ n_pc = "done"
    /\ Len(n_file) >= 2
    /\ n_file # n_infile

\* a run was stopped after it had written part of the temporary file
C9_WitnessStopped ==
    /\ n_pc \in {"killed", "raised"}
    /\ Len(n_tmp) >= 1
    /\ n_file = n_infile

\* C10: the rewritten file has as many lines as the input, output line i
\* comes from input line i, and an input line that is not valid JSON stands
\* at the same position character for character.
C10_LineForLine ==
    n_pc = "done"
    => /\ Len(n_file) = Len(n_infile)
       /\ \A i \in 1..Len(n_infile) :
             /\ n_file[i].k = n_infile[i].k
             /\ n_infile[i].k = "invalid" => n_file[i] = n_infile[i]

\* without blank lines and without whitespace around a line the
\* correspondence holds (an auxiliary property; it holds)
LineForLineNoBlank ==
    (n_pc = "done" /\ \A i \in 1..Len(n_infile) :
                          n_infile[i].k # "blank" /\ ~n_infile[i].pad)
    => /\ Len(n_file) = Len(n_infile)
       /\ \A i \in 1..Len(n_infile) :
             /\ n_file[i].k = n_infile[i].k
             /\ n_infile[i].k = "invalid" => n_file[i] = n_infile[i]

(***************************************************************************)
(* Claims about process_station_averages (checked under SpecStation)       *)
(***************************************************************************)
\* the records that contribute to an accumulator entry
Accepted(line) ==
    /\ line.k = "json"
    /\ ~FilteredOut(line.param_id)
    /\ PassesChecks(line)
    /\ line.value.k \in {"num", "str_num"}

\* the positions of the accepted input records that map to key
Contributors(key) ==
    {i \in 1..Len(s_infile) : Accepted(s_infile[i]) /\ KeyOf(s_infile[i]) = key}

RECURSIVE SumValues(_)
SumValues(I) ==
    IF I = {} THEN 0
    ELSE LET i == CHOOSE x \in I : TRUE
         IN s_infile[i].value.n + SumValues(I \ {i})

RowKey(row) == <<row.station_id, row.timestamp_utc, row.parameter>>

\* v, in units of 0.0001, is total / count to four decimals
IsMean4(v, total, count) ==
    /\ count > 0
    /\ 2 * (v * count - total * 10000) <= count
    /\ 2 * (total * 10000 - v * count) <= count

\* C1: every output row's value_avg is the arithmetic mean of the values of
\* exactly the accepted records of its (station_id, hour, parameter) key and
\* its count is their number; a finished run has a row for every key that
\* has accepted records.
C1_StationMean ==
    /\ \A j \in 1..Len(s_out) :
          LET I == Contributors(RowKey(s_out[j]))
          IN /\ s_out[j].count = Cardinality(I)
             /\ IsMean4(s_out[j].value_avg, SumValues(I), Cardinality(I))
    /\ s_pc = "done" =>
          \A i \in 1..Len(s_infile) :
              Accepted(s_infile[i]) =>
                  \E j \in 1..Len(s_out) : RowKey(s_out[j]) = KeyOf(s_infile[i])

\* the rows S1, hour 1, temp_dry with values 10, 12, 14 gave 12.0000 and 3
C1_Witness ==
    /\ s_pc = "done"
    /\ \E j \in 1..Len(s_out) :
          s_out[j] = [station_id |-> "S1", timestamp_utc |-> 1, parameter |-> "temp_dry",
                      value_avg |-> 120000, count |-> 3]

(***************************************************************************)
(* Claims about calculate_regional_averages (checked under SpecRegion)     *)
(***************************************************************************)
\* the positions of the station-hour rows for (ts, param) that carry a number
StationRows(ts, param) ==
    {i \in 1..Len(r_infile) : /\ r_infile[i].timestamp_utc = ts
                              /\ r_infile[i].parameter = param
                              /\ r_infile[i].value_avg.k = "num"}

RECURSIVE SumAvgs(_)
SumAvgs(I) ==
    IF I = {} THEN 0
    ELSE LET i == CHOOSE x \in I : TRUE
         IN r_infile[i].value_avg.n + SumAvgs(I \ {i})

\* C2: every filled cell of the regional table is the sum of the value_avg of
\* the station-hour rows of its hour and parameter divided by the number of
\* those rows: each station row weighs the same, whatever its count column.
C2_UnweightedMean ==
    \A j \in 1..Len(r_out) :
        \A p \in DOMAIN r_out[j].cells :
            LET I == StationRows(r_out[j].Timestamp_UTC, p)
            IN IF I = {}
               THEN r_out[j].cells[p].k = "empty"
               ELSE /\ r_out[j].cells[p].k = "num"
                    /\ IsMean4(r_out[j].cells[p].n, SumAvgs(I), Cardinality(I))

\* station means 12 (from 3 readings) and 8 (from 1 reading) gave 10.0000
C2_Witness ==
    /\ r_pc = "done"
    /\ \E i, k \in 1..Len(r_infile) :
          /\ r_infile[i] = RRow("S1", 1, "temp_dry", SNum(12), 3)
          /\ r_infile[k] = RRow("S2", 1, "temp_dry", SNum(8), 1)
    /\ \E j \in 1..Len(r_out) :
          /\ r_out[j].Timestamp_UTC = 1
          /\ r_out[j].cells["temp_dry"] = [k |-> "num", n |-> 100000]

(***************************************************************************)
(* Claims about the column pruner (checked under SpecPrune)                *)
(***************************************************************************)
\* column i of the table of the current clean_dataset call has been through
\* the loop body
ColumnChecked(i) == p_cur # NoFile /\ i \in 1..Len(df) /\ i < p_col

InDropList(name) == \E j \in 1..Len(cols_to_drop) : cols_to_drop[j] = name

DroppedFor(name, reason) ==
    InDropList(name) /\ name \in DOMAIN reasons /\ reasons[name] = reason

Protected(name) ==
    name \in {"Timestamp_UTC", "wind_speed", "radia_glob", "temp_dry",
              "mean_cloud_cover", "Stations_Reporting_Min"}

EmptyCells(cells) == {j \in 1..Len(cells) : cells[j] = ""}

\* some non-missing value whose share of the non-missing cells relates to
\* 19/20 as rel says
TopShare(cells, rel) ==
    LET nonmissing == Len(cells) - Cardinality(EmptyCells(cells))
        occurrences(v) == Cardinality({j \in 1..Len(cells) : cells[j] = v})
    IN \E v \in {"a", "b"} :
          /\ occurrences(v) > 0
          /\ IF rel = "above" THEN occurrences(v) * 20 > 19 * nonmissing
                              ELSE occurrences(v) * 20 = 19 * nonmissing

\* C11: a column outside ALWAYS_KEEP is dropped for sparsity if and only if
\* its missing cells are strictly more than 9/10 of the rows; at exactly 9/10
\* it is not dropped by this check.
C11_SparsityStrict ==
    \A i \in 1..Len(df) :
        (ColumnChecked(i) /\ ~Protected(df[i].name)) =>
            (DroppedFor(df[i].name, "Mostly Empty")
                <=> Cardinality(EmptyCells(df[i].cells)) * 10 > 9 * Len(df[i].cells))

\* a checked column with exactly 9/10 of its cells missing, and not dropped
\* for sparsity
C11_Witness ==
    \E i \in 1..Len(df) :
        /\ ColumnChecked(i) /\ ~Protected(df[i].name)
        /\ Len(df[i].cells) > 0
        /\ Cardinality(EmptyCells(df[i].cells)) * 10 = 9 * Len(df[i].cells)
        /\ ~DroppedFor(df[i].name, "Mostly Empty")

CleanReturned == p_cur # NoFile /\ p_pc \in {"main", "done"}

CleanedFile == p_fs[FName(p_cur.stem, "_cleaned")]

\* C13: a column named in ALWAYS_KEEP is never put on the drop list, whatever
\* its content, and every output table written has it with its cells.
C13_AllowList ==
    \A i \in 1..Len(df) :
        (ColumnChecked(i) /\ Protected(df[i].name)) =>
            /\ ~InDropList(df[i].name)
            /\ (CleanReturned /\ cols_to_drop # <<>>) =>
                   \E j \in 1..Len(CleanedFile.cols) : CleanedFile.cols[j] = df[i]

\* an output was written for a table whose protected columns are a constant
\* timestamp and an entirely missing temp_dry
C13_Witness ==
    /\ CleanReturned /\ cols_to_drop # <<>>
    /\ CleanedFile.k = "table"
    /\ \E i \in 1..Len(df) :
          /\ df[i].name = "temp_dry"
          /\ Len(df[i].cells) > 1
          /\ Cardinality(EmptyCells(df[i].cells)) = Len(df[i].cells)
          /\ \E j \in 1..Len(CleanedFile.cols) : CleanedFile.cols[j] = df[i]

\* C14: no step changes the content of a file that matches the input pattern
\* (columns dropped, nothing dropped, empty file, read error alike), and no
\* file with "_cleaned" in its name becomes the argument of clean_dataset.
C14_InputUntouched ==
    [][/\ \A f \in DOMAIN p_fs : f.tag = "" => p_fs'[f] = p_fs[f]
       /\ p_cur' # NoFile =>
              (p_cur'.tag # "_cleaned" /\ p_cur'.stem # "DK2_cleaned")]_vars

\* a pruned table has been written next to its unchanged input, and the loop
\* has passed over the file with "_cleaned" in its name
C14_Witness ==
    /\ CleanReturned /\ cols_to_drop # <<>>
    /\ CleanedFile = Table(Drop(df, cols_to_drop))
    /\ p_fs[p_cur] = Table(df)
    /\ p_files = {}

\* the columns of cols that are not on the drop list, in their order
KeptColumns(cols) == SelectSeq(cols, LAMBDA c : ~InDropList(c.name))

\* C15: when clean_dataset returns for a readable table with at least one
\* row, the output file holds exactly the columns that were not dropped, in
\* order and with all rows -- also when nothing was dropped.
C15_EmitsTable ==
    CleanReturned => CleanedFile = Table(KeptColumns(df))

\* the same for the calls that dropped a column
PrunedTableWhenDropping ==
    (CleanReturned /\ cols_to_drop # <<>>) => CleanedFile = Table(KeptColumns(df))

ReportedColumns == {p_report[j][1] : j \in 1..Len(p_report)}

ColumnNames(cols) == {cols[j].name : j \in 1..Len(cols)}

\* C16: whenever columns are dropped, the report names each of them exactly
\* once with one reason (sparse or quasi-constant), the reported columns are
\* the columns removed from the output, and a column dropped for sparsity is
\* not evaluated or reported for dominance.
C16_Report ==
    /\ \A name \in DOMAIN reasons :
           reasons[name] = "Mostly Empty" => name \notin p_counted
    /\ \A j \in 1..Len(cols_to_drop) :
           \A k \in 1..Len(cols_to_drop) :
               (cols_to_drop[j] = cols_to_drop[k]) => j = k
    /\ (CleanReturned /\ cols_to_drop # <<>>) =>
           /\ \A j, k \in 1..Len(p_report) : p_report[j][1] = p_report[k][1] => j = k
           /\ \A j \in 1..Len(p_report) :
                  /\ p_report[j][2] \in {"Mostly Empty", "Constant Value"}
                  /\ p_report[j][2] = "Mostly Empty" =>
                         \E i \in 1..Len(df) :
                             /\ df[i].name = p_report[j][1]
                             /\ Cardinality(EmptyCells(df[i].cells)) * 10
                                    > 9 * Len(df[i].cells)
           /\ ReportedColumns = ColumnNames(df) \ ColumnNames(CleanedFile.cols)
           /\ ReportedColumns # {}

\* a report with a sparse column and a quasi-constant column
C16_Witness ==
    /\ CleanReturned
    /\ \E j, k \in 1..Len(p_report) :
          p_report[j][2] = "Mostly Empty" /\ p_report[k][2] = "Constant Value"

(***************************************************************************)
(* Claims about malformed lines in split_file_by_zone (checked under       *)
(* SpecSplit)                                                              *)
(***************************************************************************)
\* a line that is not valid JSON, or whose properties / geometry is not an
\* object, or whose coordinates is neither a list nor absent
MalformedLine(line) ==
    \/ line.k = "invalid"
    \/ line.k = "json" /\ line.shape # "ok"
    \/ line.k = "json" /\ line.coordinates.k \notin {"list", "null"}

WellFormedLine(line) ==
    /\ line.k = "json" /\ line.shape = "ok"
    /\ line.station_id.k \in {"str", "null"}
    /\ line.coordinates.k \in {"list", "null"}

SplitEnded == z_pc \in {"done", "error"}

\* C17: a malformed line never ends the stream: when the splitter has ended,
\* no malformed line is in an output, and every well-formed line that comes
\* after a malformed one has been read and, when its zone is DK1 or DK2,
\* written to that zone's output.
C17_MalformedSkipped ==
    SplitEnded =>
        /\ \A l \in SeqRange(f_dk1) \cup SeqRange(f_dk2) : ~MalformedLine(l)
        /\ \A i \in 1..Len(z_infile) :
              (/\ WellFormedLine(z_infile[i])
               /\ \E j \in 1..(i - 1) : MalformedLine(z_infile[j])) =>
                  /\ i \in ZSeen
                  /\ Classify(Strip(z_infile[i])) = Return("DK1") =>
                         Strip(z_infile[i]) \in SeqRange(f_dk1)
                  /\ Classify(Strip(z_infile[i])) = Return("DK2") =>
                         Strip(z_infile[i]) \in SeqRange(f_dk2)

\* the same for lines that are not valid JSON, the one malformation the inner
\* handler catches
InvalidJsonSkipped ==
    SplitEnded =>
        \A i \in 1..Len(z_infile) :
            (/\ WellFormedLine(z_infile[i])
             /\ \E j \in 1..(i - 1) : z_infile[j].k = "invalid"
             /\ \A j \in 1..(i - 1) : z_infile[j].k = "json" => WellFormedLine(z_infile[j])) =>
                /\ i \in ZSeen
                /\ Classify(Strip(z_infile[i])) = Return("DK1") =>
                       Strip(z_infile[i]) \in SeqRange(f_dk1)
                /\ Classify(Strip(z_infile[i])) = Return("DK2") =>
                       Strip(z_infile[i]) \in SeqRange(f_dk2)

(***************************************************************************)
(* Claims about the shape of the station-hour output and the records the   *)
(* aggregator skips (checked under SpecStation)                            *)
(***************************************************************************)
\* a record without station ID, parameter ID, value or 'from' time, with a
\* time that does not parse, or a line that is not valid JSON
SkippedRecord(line) ==
    \/ line.k = "invalid"
    \/ /\ line.k = "json"
       /\ \/ line.station_id = ""
          \/ line.param_id = ""
          \/ line.value.k = "null"
          \/ line.time_from.k # "ts"

\* C18: reading a record that lacks a required field, has an unparseable
\* time, or is not valid JSON leaves the accumulator mapping as it was and
\* the loop goes on to the next line, so the later records are aggregated as
\* if the record were not in the input.
C18_SkipPolicy ==
    [][(/\ s_pc = "loop" /\ s_pos <= Len(s_infile)
        /\ SkippedRecord(s_infile[s_pos])) =>
            (/\ aggregated_data' = aggregated_data
             /\ s_pos' = s_pos + 1
             /\ s_pc' = "loop")]_vars

\* a run that finished with the row of the one accepted record although
\* records of the skipped kinds came before and after it
C18_Witness ==
    /\ s_pc = "done"
    /\ Len(s_infile) = 3
    /\ SkippedRecord(s_infile[1]) /\ s_infile[1].k = "json"
    /\ Accepted(s_infile[2])
    /\ s_infile[3].k = "invalid"
    /\ Len(s_out) = 1
    /\ RowKey(s_out[1]) = KeyOf(s_infile[2])
    /\ s_out[1].count = 1

\* the output file has been opened and the run is over: it finished, or the
\* row loop raised
StationEnded == s_pc = "done" \/ (s_pc = "raised" /\ s_todo # <<>>)

AcceptedKeys == {KeyOf(s_infile[i]) : i \in {j \in 1..Len(s_infile) : Accepted(s_infile[j])}}

\* C19: the accepted observations of one (station, hour, parameter) are one
\* entry, so the output has exactly one row for each distinct key of the
\* accepted observations, and the rows are in ascending order of the triple.
C19_OneRowPerKey ==
    /\ \A j, k \in 1..Len(s_out) :
           j < k => KeyLess(RowKey(s_out[j]), RowKey(s_out[k]))
    /\ StationEnded => {RowKey(s_out[j]) : j \in 1..Len(s_out)} = AcceptedKeys

\* the same for the runs that reach the end of the row loop
OneRowPerKeyWhenDone ==
    /\ \A j, k \in 1..Len(s_out) :
           j < k => KeyLess(RowKey(s_out[j]), RowKey(s_out[k]))
    /\ s_pc = "done" => {RowKey(s_out[j]) : j \in 1..Len(s_out)} = AcceptedKeys

(***************************************************************************)
(* Claims about the regional wide table (checked under SpecRegion)         *)
(***************************************************************************)
OutputHours == {r_out[j].Timestamp_UTC : j \in 1..Len(r_out)}

\* no hour has two rows; a cell is empty exactly when its hour and parameter
\* have no station row with a parseable value_avg; a zero mean is the cell
\* 0.0000
CellsOfWideTable ==
    /\ \A j, k \in 1..Len(r_out) :
           r_out[j].Timestamp_UTC = r_out[k].Timestamp_UTC => j = k
    /\ \A j \in 1..Len(r_out) :
           \A p \in DOMAIN r_out[j].cells :
               LET I == StationRows(r_out[j].Timestamp_UTC, p)
               IN /\ r_out[j].cells[p].k = "empty" <=> I = {}
                  /\ (I # {} /\ SumAvgs(I) = 0) =>
                         r_out[j].cells[p] = [k |-> "num", n |-> 0]

\* C20: the regional table has exactly one row for each distinct hour of
\* the input; a cell is the empty string if and only if no station-hour row
\* with a parseable value_avg exists for its hour and parameter; a mean of
\* zero is written 0.0000, not empty.
C20_WideTable ==
    /\ CellsOfWideTable
    /\ r_pc = "done" =>
           OutputHours = {r_infile[i].timestamp_utc : i \in 1..Len(r_infile)}

\* the same with a row for each hour that has a parseable value_avg
WideTableOfParseableHours ==
    /\ CellsOfWideTable
    /\ r_pc = "done" =>
           OutputHours = {r_infile[i].timestamp_utc :
                             i \in {j \in 1..Len(r_infile) : r_infile[j].value_avg.k = "num"}}

(***************************************************************************)
(* Claims about the interaction of the two pruner checks (checked under    *)
(* SpecPrune)                                                              *)
(***************************************************************************)
\* column i is outside ALWAYS_KEEP, has been checked, 4/5 of its cells are
\* missing and the others all hold one value
EightyPercentMissingRestConstant(i) ==
    /\ ColumnChecked(i) /\ ~Protected(df[i].name)
    /\ Len(df[i].cells) > 0
    /\ Cardinality(EmptyCells(df[i].cells)) * 5 = 4 * Len(df[i].cells)
    /\ \A j, k \in 1..Len(df[i].cells) :
           (df[i].cells[j] # "" /\ df[i].cells[k] # "") => df[i].cells[j] = df[i].cells[k]

\* C21: a column outside the allow-list that is 80% missing and whose other
\* cells all hold one repeated value is dropped, and the reason recorded
\* for it is the sparsity rule.
C21_DroppedBySparsity ==
    \A i \in 1..Len(df) :
        EightyPercentMissingRestConstant(i) => DroppedFor(df[i].name, "Mostly Empty")

\* C21 as the code has it: such a column is dropped, and the reason
\* recorded for it is the dominance rule, because 0.80 is not above 0.90.
C21_DroppedByDominance ==
    \A i \in 1..Len(df) :
        EightyPercentMissingRestConstant(i) =>
            /\ DroppedFor(df[i].name, "Constant Value")
            /\ Cardinality({j \in 1..Len(cols_to_drop) : cols_to_drop[j] = df[i].name}) = 1

\* the report of a finished call names such a column with the dominance
\* reason
C21_Witness ==
    /\ CleanReturned
    /\ \E i \in 1..Len(df) :
          /\ EightyPercentMissingRestConstant(i)
          /\ Len(df[i].cells) = 10
          /\ \E j \in 1..Len(p_report) :
                 p_report[j] = <<df[i].name, "Constant Value">>

(***************************************************************************)
(* Claims about hour bucketing after normalization (checked under          *)
(* SpecBucket)                                                             *)
(***************************************************************************)
\* the date and hour of the instant a timestamp denotes, in UTC: with its
\* own offset when it has one, otherwise read as local time
UtcDateHour(v) == IF v.tz THEN v.h - v.off ELSE v.h - local_tz

\* C22: for every time string that normalize_to_utc produces from a
\* parseable timestamp, get_hourly_timestamp returns a bucket (not None)
\* that is the UTC date and hour of that time with minutes and seconds
\* zero; two observations get the same bucket exactly when their UTC date
\* and hour are equal.
C22_BucketAfterNormalize ==
    Len(callRes) = 4 =>
        /\ \A i \in 1..2 :
               /\ callRes[2 + i].tag = "hour"
               /\ callRes[2 + i].h = UtcDateHour(callArgs[i])
        /\ (callRes[3] = callRes[4]) <=> (UtcDateHour(callArgs[1]) = UtcDateHour(callArgs[2]))

\* two times written with different offsets, one of them with fractional
\* seconds and other minutes, that denote the same UTC hour and share the
\* bucket
C22_Witness ==
    /\ Len(callRes) = 4
    /\ callArgs[1].tz /\ callArgs[2].tz
    /\ callArgs[1].off # callArgs[2].off
    /\ callArgs[1].frac /\ callArgs[1].min # callArgs[2].min
    /\ callRes[3].tag = "hour"
    /\ callRes[3] = callRes[4]

(***************************************************************************)
(* Claims about the station counts of the regional table (checked under    *)
(* SpecRegionCrowd and SpecRegion)                                         *)
(***************************************************************************)
\* the numbers of station rows behind the filled cells of output row j
ContributingCounts(j) ==
    {Cardinality(StationRows(r_out[j].Timestamp_UTC, p)) : p \in DOMAIN r_out[j].cells}
        \ {0}

\* C23: in every output row Stations_Reporting_Min is the minimum and
\* Stations_Reporting_Max the maximum, over the parameters with a value in
\* that hour, of the number of station rows behind the value; so
\* 1 <= Min <= Max, however many stations contribute.
C23_StationCounts ==
    \A j \in 1..Len(r_out) :
        /\ r_out[j].Stations_Reporting_Min \in ContributingCounts(j)
        /\ r_out[j].Stations_Reporting_Max \in ContributingCounts(j)
        /\ \A c \in ContributingCounts(j) :
               r_out[j].Stations_Reporting_Min <= c /\ c <= r_out[j].Stations_Reporting_Max
        /\ 1 <= r_out[j].Stations_Reporting_Min
        /\ r_out[j].Stations_Reporting_Min <= r_out[j].Stations_Reporting_Max

\* the state the crowd specification starts from is the state the read
\* loop is in: on the files of SpecRegion that hold the crowd row only, the
\* accumulator after k rows is CrowdRead(k)
CrowdReadIsLoopState ==
    (r_pc = "loop" /\ r_pos >= 1 /\ \A i \in 1..Len(r_infile) : r_infile[i] = CrowdRow) =>
        /\ timestamps = CrowdRead(r_pos - 1)
        /\ r_pos > 1 => all_parameters = {CrowdRow.parameter}

(***************************************************************************)
(* Claims about the accumulator of the station-hour aggregator (checked    *)
(* under SpecStation)                                                      *)
(***************************************************************************)
\* the keys whose entry a step creates or changes
ChangedEntries ==
    {key \in DOMAIN aggregated_data' :
        key \notin DOMAIN aggregated_data \/ aggregated_data'[key] # aggregated_data[key]}

\* the step reads the record at s_pos, which has this key, and adds its
\* value to the sum and 1 to the count of the key's entry
AddsRecord(key) ==
    /\ s_pc = "loop" /\ s_pos <= Len(s_infile)
    /\ s_infile[s_pos].k = "json"
    /\ KeyOf(s_infile[s_pos]) = key
    /\ s_infile[s_pos].value.k \in {"num", "str_num"}
    /\ aggregated_data'[key] =
           <<EntryOf(aggregated_data, key)[1] + s_infile[s_pos].value.n,
             EntryOf(aggregated_data, key)[2] + 1>>

\* the step reads the record at s_pos, which has this key, and leaves a new
\* entry with sum 0 and count 0
CreatesEmptyEntry(key) ==
    /\ s_pc = "loop" /\ s_pos <= Len(s_infile)
    /\ s_infile[s_pos].k = "json"
    /\ KeyOf(s_infile[s_pos]) = key
    /\ key \notin DOMAIN aggregated_data
    /\ aggregated_data'[key] = <<0, 0>>

\* entries are never removed and counts never decrease; a mean is written
\* only after the whole input has been read, and never twice for a key
EntriesKeptMeansLate ==
    /\ DOMAIN aggregated_data \subseteq DOMAIN aggregated_data'
    /\ \A key \in DOMAIN aggregated_data :
           aggregated_data'[key][2] >= aggregated_data[key][2]
    /\ Cardinality(ChangedEntries) <= 1
    /\ s_out' # s_out =>
           /\ s_pos > Len(s_infile)
           /\ aggregated_data' = aggregated_data
           /\ Len(s_out') = Len(s_out) + 1
           /\ \A j \in 1..Len(s_out) :
                  s_out'[j] = s_out[j] /\ RowKey(s_out[j]) # RowKey(s_out'[Len(s_out')])

\* C24: an entry exists only after a record with its key has been read; it
\* is never removed and its count never decreases; a step changes at most
\* one entry, by adding one record's value to the sum and 1 to the count;
\* the mean of every key is computed exactly once, after the whole input
\* has been read.
C24_Lifecycle ==
    [][/\ EntriesKeptMeansLate
       /\ \A key \in ChangedEntries : AddsRecord(key)
       /\ (s_pc' = "done" \/ (s_pc' = "raised" /\ s_todo' # <<>>)) =>
              \A key \in DOMAIN aggregated_data' :
                  \E j \in 1..Len(s_out') : RowKey(s_out'[j]) = key]_vars

\* the same where a step may also leave a new entry with count 0, and the
\* means are looked at in the runs that reach the end of the row loop
LifecycleWithEmptyEntries ==
    [][/\ EntriesKeptMeansLate
       /\ \A key \in ChangedEntries : AddsRecord(key) \/ CreatesEmptyEntry(key)
       /\ s_pc' = "done" =>
              \A key \in DOMAIN aggregated_data' :
                  \E j \in 1..Len(s_out') : RowKey(s_out'[j]) = key]_vars

\* a record with station, parameter, a convertible value and a time that
\* parses
ValidRecord(line) ==
    /\ line.k = "json"
    /\ ~SkippedRecord(line)
    /\ line.value.k \in {"num", "str_num"}
    /\ get_hourly_timestamp(line.time_from).tag = "hour"

\* C25: with KEEP_PARAMS empty every parameter of the input is aggregated
\* (every valid record read has an entry that counts it); with KEEP_PARAMS
\* non-empty no entry and no output row has a parameter outside it.
C25_ParameterAllowList ==
    /\ KEEP_PARAMS = {} =>
           \A i \in 1..Len(s_infile) :
               (i < s_pos /\ ValidRecord(s_infile[i])) =>
                   /\ KeyOf(s_infile[i]) \in DOMAIN aggregated_data
                   /\ aggregated_data[KeyOf(s_infile[i])][2] >= 1
    /\ KEEP_PARAMS # {} =>
           /\ \A key \in DOMAIN aggregated_data : key[3] \in KEEP_PARAMS
           /\ \A j \in 1..Len(s_out) : s_out[j].parameter \in KEEP_PARAMS

\* a finished run with KEEP_PARAMS = {temp_dry} over a valid wind_speed
\* record and a valid temp_dry record: the one row is the temp_dry row
C25_Witness ==
    /\ s_pc = "done"
    /\ KEEP_PARAMS = {"temp_dry"}
    /\ \E i, j \in 1..Len(s_infile) :
          /\ ValidRecord(s_infile[i]) /\ s_infile[i].param_id = "wind_speed"
          /\ ValidRecord(s_infile[j]) /\ s_infile[j].param_id = "temp_dry"
    /\ Len(s_out) = 1
    /\ s_out[1].parameter = "temp_dry"

\* with KEEP_PARAMS empty a finished run has rows of both parameters
AllParametersKept ==
    /\ s_pc = "done"
    /\ KEEP_PARAMS = {}
    /\ \E i, j \in 1..Len(s_out) :
          s_out[i].parameter = "wind_speed" /\ s_out[j].parameter = "temp_dry"

\* the read loop is over and the means are being or have been computed
MeansComputed == s_pc \in {"write", "done"} \/ (s_pc = "raised" /\ s_todo # <<>>)

\* every entry has count >= 1 when the means are computed, the division
\* does not raise, and a run that ended has written the row of every entry
CountsPositive ==
    /\ MeansComputed => \A key \in DOMAIN aggregated_data : aggregated_data[key][2] >= 1
    /\ ~(s_pc = "raised" /\ s_todo # <<>>)
    /\ s_pc = "done" => Len(s_out) = Cardinality(DOMAIN aggregated_data)

\* C26: for every input, also with values that are present but do not
\* convert to a number, every accumulator entry has count >= 1 when the
\* means are computed, so sum/count never divides by zero and the output is
\* written completely.
C26_NoZeroCount == CountsPositive

\* the same for the inputs in which every record that reaches float() has a
\* value that converts
NoZeroCountWhenValuesConvert ==
    (\A i \in 1..Len(s_infile) : s_infile[i].value.k \notin {"str_bad", "list"})
        => CountsPositive

(***************************************************************************)
(* Claims about the counters of split_file_by_zone (checked under          *)
(* SpecSplit)                                                              *)
(***************************************************************************)
\* the stripped input lines at the positions I, in input order
RECURSIVE StrippedAt(_)
StrippedAt(I) ==
    IF I = {} THEN <<>>
    ELSE LET last == CHOOSE i \in I : \A j \in I : j <= i
         IN Append(StrippedAt(I \ {last}), Strip(z_infile[last]))

NonBlankLines == {i \in 1..Len(z_infile) : z_infile[i].k # "blank"}

\* C27: when the splitter has read the whole file, count_dk1 + count_dk2 +
\* count_unknown + the invalid-JSON lines skipped is the number of
\* non-blank input lines; the DK1 and DK2 outputs hold count_dk1 and
\* count_dk2 lines, which are stripped input lines in input order, and no
\* input line occurrence is in both outputs.
C27_Conservation ==
    z_pc = "done" =>
        /\ count_dk1 + count_dk2 + count_unknown + z_invalid = Cardinality(NonBlankLines)
        /\ Len(f_dk1) = count_dk1
        /\ Len(f_dk2) = count_dk2
        /\ \E I1 \in SUBSET NonBlankLines : \E I2 \in SUBSET (NonBlankLines \ I1) :
               /\ f_dk1 = StrippedAt(I1)
               /\ f_dk2 = StrippedAt(I2)
               /\ Cardinality(NonBlankLines \ (I1 \cup I2)) = count_unknown + z_invalid

\* a whole file read with a blank line, a DK2 line written stripped, and an
\* UNKNOWN record counted
C27_Witness ==
    /\ z_pc = "done"
    /\ Len(z_infile) = 3
    /\ \E i \in 1..3 : z_infile[i].k = "blank"
    /\ count_dk2 = 1 /\ count_unknown = 1
    /\ \E i \in 1..3 : z_infile[i].pad /\ z_infile[i] # f_dk2[1] /\ Strip(z_infile[i]) = f_dk2[1]

\* a whole file read with an invalid line between a DK1 and a DK2 line
ConservationWithInvalid ==
    /\ z_pc = "done"
    /\ z_invalid = 1 /\ count_dk1 = 1 /\ count_dk2 = 1


(***************************************************************************)
(* Claims about the orchestrator (checked under SpecOrch)                  *)
(***************************************************************************)
Succeeded(outcome) == outcome.k = "exit" /\ outcome.code = 0

IsPrefix(a, b) == Len(a) <= Len(b) /\ \A i \in 1..Len(a) : a[i] = b[i]

\* C28: the scripts are started strictly in list order, each only after the
\* previous one finished with exit code 0; at the first script that fails
\* (non-zero exit code, or it cannot be launched) no later script is started
\* and the orchestrator exits with code 1; "All scripts executed
\* successfully!" is printed only if every script succeeded.
C28_SequentialFailFast ==
    /\ IsPrefix(o_started, SCRIPTS_TO_RUN)
    /\ Len(o_started) <= Len(o_results) + 1
    /\ \A i \in 1..Len(o_started) :
           \A j \in 1..(i - 1) : j <= Len(o_results) /\ Succeeded(o_results[j])
    /\ \A j \in 1..Len(o_results) :
           ~Succeeded(o_results[j]) =>
               /\ j = Len(o_results)
               /\ Len(o_started) <= j
               /\ o_child = ""
               /\ o_exit = 1
               /\ o_pc = "exited"
    /\ (\E m \in 1..Len(o_log) : o_log[m] = "All scripts executed successfully!") =>
           /\ Len(o_results) = Len(SCRIPTS_TO_RUN)
           /\ o_started = SCRIPTS_TO_RUN
           /\ \A j \in 1..Len(o_results) : Succeeded(o_results[j])

\* a first script succeeded, the second was started and returned non-zero
\* while a third was still waiting in the list
C28_Witness ==
    /\ Len(SCRIPTS_TO_RUN) = 3
    /\ Len(o_results) = 2
    /\ Succeeded(o_results[1])
    /\ o_results[2].k = "exit" /\ o_results[2].code # 0
    /\ Len(o_started) = 2
    /\ o_exit = 1

=============================================================================
